---- MODULE Spec2Model ----
(***************************************************************************)
(* A model of the Hinemos REST client (src/src/hinemos_mcp/client.py) and  *)
(* of the monitor builders on top of it (src/src/hinemos_mcp/monitor.py).  *)
(*                                                                         *)
(* Encoding of Python values                                               *)
(*   - a dict, and a pydantic object, is a function from field names to    *)
(*     values; a field whose value is None is ABSENT from the function,    *)
(*     so model_dump(exclude_none=True) keeps the domain and {} is <<>>;   *)
(*   - a stand-alone None (the cached token) is the string None;           *)
(*   - a formatted string f"HTTP {code}: {detail}" is the tuple of its     *)
(*     parts <<"HTTP ", code, ": ", detail>>;                              *)
(*   - an HTTP body is [shape |-> "object", obj |-> dict],                 *)
(*     [shape |-> "array", items |-> <<...>>] (stands for every JSON       *)
(*     value that is not an object), [shape |-> "text", text |-> s]        *)
(*     (not JSON) or [shape |-> "empty"];                                  *)
(*   - a raised exception is a record with a type field; the outcome of a  *)
(*     call has the field exc exactly when the call raised.                *)
(***************************************************************************)
EXTENDS Integers, Sequences, FiniteSets, TLC

VARIABLES token, wire, last, nCalls, upstream

vars == <<token, wire, last, nCalls, upstream>>

\* Bound on the number of calls made on one client instance.
MaxCalls == 3

None == "None"
base_url == "{base}"

Get(d, k, default) == IF k \in DOMAIN d THEN d[k] ELSE default

\* F applied to the value of v, v being evaluated once.
With(v, F(_)) == CHOOSE out \in {F(x) : x \in {v}} : TRUE

TruthyMutNeverHeld(t) == FALSE

\* Python truthiness of the cached token: None and "" are falsy.
Truthy(t) == t \notin {None, ""}

(***************************************************************************)
(* httpx.Response                                                          *)
(***************************************************************************)
is_success(status) == status >= 200 /\ status <= 299

EmptyBody == [shape |-> "empty"]
Obj(o) == [shape |-> "object", obj |-> o]
Arr(s) == [shape |-> "array", items |-> s]
Text(t) == [shape |-> "text", text |-> t]

Http(status, body) == [kind |-> "http", status |-> status, body |-> body]
NetErr == [kind |-> "neterr"]

\* response.text
text(body) == IF body.shape = "text" THEN body.text
              ELSE IF body.shape = "empty" THEN ""
              ELSE "<json>"

\* response.json() raises json.JSONDecodeError on a body that is not JSON.
json_fails(body) == body.shape \in {"text", "empty"}

(***************************************************************************)
(* HinemosAPIError                                                         *)
(***************************************************************************)
HinemosAPIErrorNoStatus(message) ==
    [type |-> "HinemosAPIError", message |-> message]

HinemosAPIError(message, status_code, body) ==
    IF body.shape = "object"
    THEN [type |-> "HinemosAPIError", message |-> message,
          status_code |-> status_code, response |-> body.obj]
    ELSE [type |-> "HinemosAPIError", message |-> message,
          status_code |-> status_code]

\* The handler of httpx.HTTPStatusError, shared in shape by login and
\* _make_request: the result is the exception that leaves the handler.
StatusErrorMutTextOnly(prefix, resp) ==
    HinemosAPIError(<<prefix, resp.status, ": ", text(resp.body)>>,
                    resp.status, resp.body)

StatusErrorHandler(prefix, resp) ==
    LET body == resp.body IN
    IF json_fails(body)
    THEN \* except (ValueError, json.JSONDecodeError): text or str(e)
         HinemosAPIError(
            <<prefix, resp.status, ": ",
              IF text(body) # "" THEN text(body) ELSE "str(e)">>,
            resp.status, body)
    ELSE IF body.shape # "object"
    THEN \* error_response.get on a value that is no dict
         [type |-> "AttributeError"]
    ELSE HinemosAPIError(
            <<prefix, resp.status, ": ",
              Get(body.obj, "message", "str(error_response)")>>,
            resp.status, body)

(***************************************************************************)
(* HinemosClient.login                                                     *)
(***************************************************************************)
LoginRequest ==
    [kind |-> "login", method |-> "POST",
     url |-> <<base_url, "AccessRestEndpoints", "access", "login">>,
     headers |-> ("Content-Type" :> "application/json")]

\* The body of login after the "already logged in" guard (lines 122-153).
login_request(tok, lresp) ==
    IF lresp.kind = "neterr"
    THEN [token |-> tok, sent |-> <<LoginRequest>>,
          exc |-> HinemosAPIErrorNoStatus(<<"Login request failed: ",
              "str(e)">>)]
    ELSE IF ~is_success(lresp.status)
    THEN [token |-> tok, sent |-> <<LoginRequest>>,
          exc |-> StatusErrorHandler("Login failed - HTTP ", lresp)]
    ELSE IF json_fails(lresp.body)
    THEN \* response.json() raises outside both except clauses
         [token |-> tok, sent |-> <<LoginRequest>>,
          exc |-> [type |-> "JSONDecodeError"]]
    ELSE IF lresp.body.shape # "object"
    THEN \* login_response.get on a value that is no dict
         [token |-> tok, sent |-> <<LoginRequest>>,
          exc |-> [type |-> "AttributeError"]]
    ELSE [token |-> Get(Get(lresp.body.obj, "token", <<>>), "tokenId", None),
          sent |-> <<LoginRequest>>]

LoginMutNoGuard(tok, lresp) == login_request(tok, lresp)

login(tok, lresp) ==
    IF Truthy(tok)
    THEN [token |-> tok, sent |-> <<>>]
    ELSE login_request(tok, lresp)

(***************************************************************************)
(* HinemosClient._make_request                                             *)
(***************************************************************************)
\* An endpoint is the sequence of its "/"-separated segments; a leading "/"
\* shows as a leading "" segment ("/repository/node" is <<"", "repository",
\* "node">>).
RECURSIVE lstrip_slash(_)
lstrip_slash(ep) ==
    IF ep # <<>> /\ Head(ep) = "" THEN lstrip_slash(Tail(ep)) ELSE ep

\* endpoint_cleaned.startswith(first + "/")
startswith(ep, first) == Len(ep) >= 2 /\ ep[1] = first

RouteMutNoMonitorResult(endpoint) ==
    LET endpoint_cleaned == lstrip_slash(endpoint) IN
    IF startswith(endpoint_cleaned, "repository")
    THEN <<base_url, "RepositoryRestEndpoints">> \o endpoint_cleaned
    ELSE IF startswith(endpoint_cleaned, "monitorsetting")
    THEN <<base_url, "MonitorsettingRestEndpoints">> \o endpoint_cleaned
    ELSE <<base_url>> \o endpoint_cleaned

route(endpoint) ==
    LET endpoint_cleaned == lstrip_slash(endpoint) IN
    IF startswith(endpoint_cleaned, "repository")
    THEN <<base_url, "RepositoryRestEndpoints">> \o endpoint_cleaned
    ELSE IF startswith(endpoint_cleaned, "monitorsetting")
    THEN <<base_url, "MonitorsettingRestEndpoints">> \o endpoint_cleaned
    ELSE IF startswith(endpoint_cleaned, "monitorresult")
    THEN <<base_url, "MonitorResultRestEndpoints">> \o endpoint_cleaned
    ELSE <<base_url>> \o endpoint_cleaned

request_headers(tok) ==
    IF Truthy(tok)
    THEN ("Content-Type" :> "application/json")
         @@ ("Authorization" :> <<"Bearer", tok>>)
    ELSE ("Content-Type" :> "application/json")

SendMutRequestErrorEscapes(resp) ==
    IF resp.kind = "neterr"
    THEN [exc |-> [type |-> "RequestError"]]
    ELSE IF ~is_success(resp.status)
    THEN [exc |-> StatusErrorHandler("HTTP ", resp)]
    ELSE [data |-> resp.body]

\* The try block of _make_request (lines 183-213), once the request is built.
send(resp) ==
    IF resp.kind = "neterr"
    THEN [exc |-> HinemosAPIErrorNoStatus(<<"Request failed: ", "str(e)">>)]
    ELSE IF ~is_success(resp.status)
    THEN [exc |-> StatusErrorHandler("HTTP ", resp)]
    ELSE IF resp.status = 204
    THEN [data |-> Obj(<<>>)]
    ELSE IF json_fails(resp.body)
    THEN [exc |-> [type |-> "JSONDecodeError"]]
    ELSE [data |-> resp.body]

\* The result has the fields token (the cached token afterwards), sent (the
\* requests sent, in order) and either data (the returned value) or exc.
make_request(tok, method, endpoint, json_data, lresp, resp) ==
    With(IF ~Truthy(tok) THEN login(tok, lresp)
         ELSE [token |-> tok, sent |-> <<>>],
         LAMBDA L :
            IF "exc" \in DOMAIN L
            THEN L
            ELSE [token |-> L.token,
                  sent |-> L.sent \o
                      <<[kind |-> "api", method |-> method,
                         url |-> route(endpoint), json |-> json_data,
                         headers |-> request_headers(L.token)]>>]
                 @@ send(resp))

(***************************************************************************)
(* pydantic models (models.py, monitor_models.py).  A model is given by    *)
(* fields (attribute name -> alias), required (the fields without a        *)
(* default), defaults (the defaults that are not None) and nested (the     *)
(* fields holding a model, or with many = TRUE a list of models).  Every   *)
(* model has populate_by_name = True and ignores keys it does not declare. *)
(***************************************************************************)
ModelOf(fields, required, defaults, nested) ==
    [fields |-> fields, required |-> required,
     defaults |-> defaults, nested |-> nested]

One(model) == [model |-> model, many |-> FALSE]
Many(model) == [model |-> model, many |-> TRUE]

\* The declared fields that the keyword arguments o give, by alias or name.
Given(model, o) ==
    {f \in DOMAIN model.fields : model.fields[f] \in DOMAIN o \/ f \in DOMAIN o}

Arg(model, o, f) ==
    IF model.fields[f] \in DOMAIN o THEN o[model.fields[f]] ELSE o[f]

\* Model(**o): [value |-> the instance] or [exc |-> ValidationError].
RECURSIVE validate(_, _)
validate(model, o) ==
    LET given == Given(model, o)
        sub(f) ==
            IF f \notin DOMAIN model.nested
            THEN [value |-> Arg(model, o, f)]
            ELSE IF model.nested[f].many
            THEN LET items == Arg(model, o, f)
                     rs == [i \in DOMAIN items |->
                              validate(model.nested[f].model, items[i])]
                 IN IF \E i \in DOMAIN rs : "exc" \in DOMAIN rs[i]
                    THEN [exc |-> [type |-> "ValidationError"]]
                    ELSE [value |-> [i \in DOMAIN rs |-> rs[i].value]]
            ELSE validate(model.nested[f].model, Arg(model, o, f))
    IN
    IF ~(model.required \subseteq given)
       \/ \E f \in given : "exc" \in DOMAIN sub(f)
    THEN [exc |-> [type |-> "ValidationError"]]
    ELSE [value |-> [f \in given |-> sub(f).value] @@ model.defaults]

\* hasattr(instance, name) for an instance of the model
hasattr(model, name) == name \in DOMAIN model.fields

\* The serializer pydantic runs for model.model_dump(by_alias=True,
\* exclude_none=True); nested models are written by the same serializer.
RECURSIVE serialize(_, _)
serialize(model, inst) ==
    LET name(a) == CHOOSE f \in DOMAIN inst : model.fields[f] = a
        out(f) ==
            IF f \notin DOMAIN model.nested THEN inst[f]
            ELSE IF model.nested[f].many
            THEN [i \in DOMAIN inst[f] |->
                    serialize(model.nested[f].model, inst[f][i])]
            ELSE serialize(model.nested[f].model, inst[f])
    IN [a \in {model.fields[f] : f \in DOMAIN inst} |-> out(name(a))]

\* models.py NodeInfo: the identity and network fields (the other fields
\* are Optional with default None, like description).
NodeInfo ==
    ModelOf([facility_id |-> "facilityId", facility_name |-> "facilityName",
             description |-> "description", valid |-> "valid",
             owner_role_id |-> "ownerRoleId",
             ip_address_v4 |-> "ipAddressV4", ip_address_v6 |-> "ipAddressV6",
             ip_address_version |-> "ipAddressVersion",
             administrator |-> "administrator", node_name |-> "nodeName",
             platform_family |-> "platformFamily",
             sub_platform_family |-> "subPlatformFamily",
             snmp_community |-> "snmpCommunity", snmp_port |-> "snmpPort",
             snmp_version |-> "snmpVersion"],
            {"facility_id", "facility_name"}, <<>>, <<>>)

NotifyRelationInfoResponse ==
    ModelOf([notify_id |-> "notifyId", notify_type |-> "notifyType"],
            {"notify_id"}, <<>>, <<>>)

AbstractMonitorResponseFields ==
    [monitor_id |-> "monitorId", monitor_type |-> "monitorType",
     monitor_type_id |-> "monitorTypeId", application |-> "application",
     description |-> "description", monitor_flg |-> "monitorFlg",
     run_interval |-> "runInterval", calendar_id |-> "calendarId",
     facility_id |-> "facilityId", scope |-> "scope",
     notify_relation_list |-> "notifyRelationList",
     owner_role_id |-> "ownerRoleId", reg_date |-> "regDate",
     reg_user |-> "regUser", update_date |-> "updateDate",
     update_user |-> "updateUser",
     sdml_monitor_type_id |-> "sdmlMonitorTypeId"]

AbstractMonitorResponse ==
    ModelOf(AbstractMonitorResponseFields, {"monitor_id"},
            [notify_relation_list |-> <<>>],
            [notify_relation_list |-> Many(NotifyRelationInfoResponse)])

(***************************************************************************)
(* Typed wrappers of client.py: what a method does with the value          *)
(* _make_request returned.                                                 *)
(***************************************************************************)
\* Model(**response_data)
construct(model, data) ==
    IF data.shape # "object"
    THEN [exc |-> [type |-> "TypeError"]]
    ELSE validate(model, data.obj)

\* [Model(**item) for item in response_data]
construct_list(model, data) ==
    IF data.shape = "object"
    THEN \* iterating a dict yields its keys, which are no mappings
         IF DOMAIN data.obj = {} THEN [value |-> <<>>]
         ELSE [exc |-> [type |-> "TypeError"]]
    ELSE LET rs == [i \in DOMAIN data.items |->
                      construct(model, data.items[i])]
         IN IF \E i \in DOMAIN rs : "exc" \in DOMAIN rs[i]
            THEN [exc |-> rs[CHOOSE i \in DOMAIN rs :
                               /\ "exc" \in DOMAIN rs[i]
                               /\ \A j \in 1..(i-1) : "exc" \notin DOMAIN rs[j]].exc]
            ELSE [value |-> [i \in DOMAIN rs |-> rs[i].value]]

\* The client methods modelled, one of each shape per sub-API: returns is
\* "none" (the value is dropped), "raw" (returned as is), "typed"
\* (Model(**data)) or "list" ([Model(**d) for d in data]).
ClientOps ==
    { [name |-> "get_facility_tree", method |-> "GET",
       endpoint |-> <<"", "repository", "facility_tree">>,
       returns |-> "raw"],
      [name |-> "get_node", method |-> "GET",
       endpoint |-> <<"", "repository", "node_withoutNodeConfigInfo", "N1">>,
       returns |-> "typed", model |-> NodeInfo],
      [name |-> "get_node_list", method |-> "POST",
       endpoint |-> <<"", "repository", "node_withoutNodeConfigInfo_search">>,
       returns |-> "list", model |-> NodeInfo],
      [name |-> "delete_nodes", method |-> "DELETE",
       endpoint |-> <<"", "repository", "node">>,
       returns |-> "none"],
      [name |-> "get_monitor", method |-> "GET",
       endpoint |-> <<"", "monitorsetting", "monitor", "M1">>,
       returns |-> "typed", model |-> AbstractMonitorResponse],
      [name |-> "set_collector_valid", method |-> "PUT",
       endpoint |-> <<"", "monitorsetting", "monitor_collectorValid">>,
       returns |-> "none"],
      [name |-> "add_ping_monitor", method |-> "POST",
       endpoint |-> <<"", "monitorsetting", "ping">>,
       returns |-> "typed", model |-> AbstractMonitorResponse] }

\* A client method: _make_request, then the wrapper's own conversion.
client_call(tok, op, lresp, resp) ==
    With(make_request(tok, op.method, op.endpoint, Get(op, "json", <<>>),
                      lresp, resp),
         LAMBDA r :
            IF "exc" \in DOMAIN r THEN r
            ELSE [token |-> r.token, sent |-> r.sent]
                 @@ (IF op.returns = "none" THEN <<>>
                     ELSE IF op.returns = "raw" THEN [value |-> r.data]
                     ELSE IF op.returns = "typed" THEN construct(op.model,
                         r.data)
                     ELSE construct_list(op.model, r.data)))

(***************************************************************************)
(* The upstream as a mocked transport: the responses it may give.          *)
(***************************************************************************)
LoginResponses ==
    { Http(200, Obj([token |-> [tokenId |-> t]])) : t \in {"tok1", "tok2"} }
    \cup { Http(200, Obj([token |-> <<>>])),
           Http(200, Arr(<<>>)),
           Http(200, Text("<html>")),
           Http(401, Obj([message |-> "unauthorized"])),
           Http(500, Arr(<<>>)),
           Http(503, Text("Service Unavailable")),
           NetErr }

Record == [facilityId |-> "N1", facilityName |-> "node1", monitorId |-> "M1"]

Responses ==
    { Http(200, Obj(Record)),
      Http(200, Obj(<<>>)),
      Http(200, Arr(<<Obj(Record)>>)),
      Http(200, Text("OK")),
      Http(204, EmptyBody),
      Http(404, Obj([message |-> "facility not found"])),
      Http(400, Obj([errors |-> "bad request"])),
      Http(500, Arr(<<>>)),
      Http(502, Text("Bad Gateway")),
      Http(503, EmptyBody),
      NetErr }

(***************************************************************************)
(* Spec: calls issued one after another on one client instance.            *)
(***************************************************************************)
\* What is kept of a request in the cumulative log.
Logged(req, lresp) ==
    IF req.kind = "login"
    THEN [kind |-> "login", url |-> req.url, headers |-> req.headers,
          answer |-> IF lresp.kind = "neterr" THEN "neterr"
                     ELSE IF ~is_success(lresp.status) THEN "error"
                     ELSE IF lresp.body.shape = "object"
                             /\ Truthy(Get(Get(lresp.body.obj, "token", <<>>),
                                           "tokenId", None))
                     THEN "token"
                     ELSE "notoken"]
    ELSE [kind |-> "api", api |-> req.url[2], headers |-> req.headers]

LogAll(sent, lresp) == [i \in DOMAIN sent |-> Logged(sent[i], lresp)]

Init ==
    /\ token = None
    /\ wire = <<>>
    /\ last = [op |-> "init"]
    /\ nCalls = 0
    /\ upstream = <<>>

\* The login inside a call is never reached with a token held, and the
\* response to the call itself is never read when that login failed: one
\* response stands for all of them there.
LoginChoices(tok) == IF Truthy(tok) THEN {NetErr} ELSE LoginResponses

ResponseChoices(tok, lresp) ==
    IF "exc" \in DOMAIN login(tok, lresp) THEN {NetErr} ELSE Responses

\* What a call leaves in `last`: the method, the token held before it, its
\* result, and the responses it consumed (lresp when a login request was
\* sent, resp when the method's own request was sent).
Last(name, returns, before, r, lresp, resp) ==
    [op |-> name, returns |-> returns, before |-> before, result |-> r]
    @@ (IF \E i \in DOMAIN r.sent : r.sent[i].kind = "login"
        THEN [lresp |-> lresp] ELSE <<>>)
    @@ (IF \E i \in DOMAIN r.sent : r.sent[i].kind = "api"
        THEN [resp |-> resp] ELSE <<>>)

\* client.login()
CallLogin ==
    /\ nCalls < MaxCalls
    /\ \E lresp \in LoginChoices(token) :
         LET r == login(token, lresp) IN
         /\ token' = r.token
         /\ wire' = wire \o LogAll(r.sent, lresp)
         /\ last' = Last("login", "none", token, r, lresp, NetErr)
    /\ nCalls' = nCalls + 1
    /\ UNCHANGED upstream

\* any other client method
CallOp ==
    /\ nCalls < MaxCalls
    /\ \E op \in ClientOps :
       \E lresp \in LoginChoices(token) :
       \E resp \in ResponseChoices(token, lresp) :
       \E r \in {client_call(token, op, lresp, resp)} :
         /\ token' = r.token
         /\ wire' = wire \o LogAll(r.sent, lresp)
         /\ last' = Last(op.name, op.returns, token, r, lresp, resp)
    /\ nCalls' = nCalls + 1
    /\ UNCHANGED upstream

Next == CallLogin \/ CallOp

Spec == Init /\ [][Next]_vars

(***************************************************************************)
(* Properties of the session client, checked under Spec.                   *)
(***************************************************************************)
LoginsInWire == {i \in DOMAIN wire : wire[i].kind = "login"}
Raised == "result" \in DOMAIN last /\ "exc" \in DOMAIN last.result
SentLogin == "lresp" \in DOMAIN last
SentRequest == "resp" \in DOMAIN last

\* C1: as long as every login request was answered with a token (login
\* succeeding), the requests sent by any sequence of calls start with the
\* one and only login request, and login() called with a token held sends
\* nothing and leaves the token as it was.
C1_LoginOnce ==
    /\ (\A i \in LoginsInWire : wire[i].answer = "token") =>
          (wire # <<>> => LoginsInWire = {1})
    /\ (last.op = "login" /\ Truthy(last.before)) =>
          (last.result.sent = <<>> /\ token = last.before)

\* Two operations after one another: one login, then the two requests.
C1_Witness ==
    /\ Len(wire) = 3
    /\ wire[1].kind = "login" /\ wire[1].answer = "token"
    /\ wire[2].kind = "api" /\ wire[3].kind = "api"
    /\ last.op = "get_node"

\* C2: every request sent to a sub-API carries Authorization: Bearer <the
\* cached tokenId> and Content-Type: application/json.
C2_BearerOnEveryRequest ==
    \A i \in DOMAIN wire :
        wire[i].kind = "api" =>
            /\ "Authorization" \in DOMAIN wire[i].headers
            /\ wire[i].headers["Authorization"] = <<"Bearer", token>>
            /\ wire[i].headers["Content-Type"] = "application/json"

\* A non-2xx answer whose body is a JSON object with a message.
HasMessage(resp) ==
    /\ resp.kind = "http" /\ ~is_success(resp.status)
    /\ resp.body.shape = "object" /\ "message" \in DOMAIN resp.body.obj

\* C7 as stated: a non-2xx answer whose body is a JSON object with a message
\* raises the API error with the response's status, the body's message as
\* its message and the body as its parsed response.
C7_MessageIsBodyMessage ==
    (SentRequest /\ HasMessage(last.resp)) =>
        /\ Raised
        /\ last.result.exc.type = "HinemosAPIError"
        /\ last.result.exc.status_code = last.resp.status
        /\ last.result.exc.message = <<last.resp.body.obj.message>>
        /\ last.result.exc.response = last.resp.body.obj

\* C7 amended: the same, the message being "HTTP <status>: " followed by
\* the body's message.
C7_MessageIsPrefixedBodyMessage ==
    (SentRequest /\ HasMessage(last.resp)) =>
        /\ Raised
        /\ last.result.exc.type = "HinemosAPIError"
        /\ last.result.exc.status_code = last.resp.status
        /\ last.result.exc.message =
               <<"HTTP ", last.resp.status, ": ", last.resp.body.obj.message>>
        /\ last.result.exc.response = last.resp.body.obj

\* get_node answered 404 {"message": "facility not found"}.
C7_Witness ==
    /\ last.op = "get_node" /\ SentRequest /\ Raised
    /\ last.resp = Http(404, Obj([message |-> "facility not found"]))

\* The last call raised HinemosAPIError carrying the status.
RaisedApiError(status) ==
    /\ Raised
    /\ last.result.exc.type = "HinemosAPIError"
    /\ "status_code" \in DOMAIN last.result.exc
    /\ last.result.exc.status_code = status

\* C8: every non-2xx answer, to the login request or to any other request
\* and whatever its body, raises HinemosAPIError carrying the status.
C8_NonSuccessRaisesApiError ==
    /\ (SentLogin /\ last.lresp.kind = "http" /\ ~is_success(last.lresp.status))
          => RaisedApiError(last.lresp.status)
    /\ (SentRequest /\ last.resp.kind = "http" /\ ~is_success(last.resp.status))
          => RaisedApiError(last.resp.status)

\* The last call raised HinemosAPIError with no status code and no body.
RaisedTransportError ==
    /\ Raised
    /\ last.result.exc.type = "HinemosAPIError"
    /\ "status_code" \notin DOMAIN last.result.exc
    /\ "response" \notin DOMAIN last.result.exc

\* C9: a network-level failure of the login request or of any other request
\* raises HinemosAPIError with no status code and no parsed body.
C9_NetworkFailure ==
    /\ (SentLogin /\ last.lresp.kind = "neterr") => RaisedTransportError
    /\ (SentRequest /\ last.resp.kind = "neterr") => RaisedTransportError

\* An operation whose own request (after a successful login) hit a network
\* failure.
C9_Witness ==
    /\ SentLogin /\ SentRequest
    /\ last.resp.kind = "neterr" /\ Raised

\* C10: an operation answered 204 raises nothing, whatever it returns.
C10_NoContentIsSuccess ==
    (SentRequest /\ last.resp.kind = "http" /\ last.resp.status = 204)
        => ~Raised

(***************************************************************************)
(* MonitorAPI: batch toggles (monitor.py lines 192-249).                   *)
(***************************************************************************)
CollectorValidRequest ==
    ModelOf([monitor_ids |-> "monitorIds", valid_flg |-> "validFlg"],
            {"monitor_ids", "valid_flg"}, <<>>, <<>>)

\* HinemosClient.get_monitor
get_monitor(tok, monitor_id, lresp, resp) ==
    client_call(tok,
                [name |-> "get_monitor", method |-> "GET",
                 endpoint |-> <<"", "monitorsetting", "monitor", monitor_id>>,
                 returns |-> "typed", model |-> AbstractMonitorResponse],
                lresp, resp)

\* HinemosClient.set_collector_valid
set_collector_valid(tok, monitor_ids, valid, lresp, resp) ==
    With(make_request(tok, "PUT",
                      <<"", "monitorsetting", "monitor_collectorValid">>,
                      serialize(CollectorValidRequest,
                                validate(CollectorValidRequest,
                                         [monitor_ids |-> monitor_ids,
                                          valid_flg |-> valid]).value),
                      lresp, resp),
         LAMBDA r :
            IF "exc" \in DOMAIN r
            THEN [token |-> r.token, sent |-> r.sent, exc |-> r.exc]
            ELSE [token |-> r.token, sent |-> r.sent])

InspectedMutDropsUnreadable(st, monitor_id, r) ==
    [token |-> r.token,
     sent |-> st.sent \o r.sent,
     valid |-> IF "exc" \in DOMAIN r THEN st.valid
               ELSE Append(st.valid, monitor_id)]

\* One turn of the loop of disable_collectors (lines 235-246): st holds the
\* cached token, the requests sent so far and valid_monitor_ids; r is the
\* outcome of self.get_monitor(monitor_id).
inspected(st, monitor_id, r) ==
    [token |-> r.token,
     sent |-> st.sent \o r.sent,
     valid |-> IF /\ "exc" \notin DOMAIN r
                  /\ hasattr(AbstractMonitorResponse, "prediction_flg")
                  /\ Get(r.value, "prediction_flg", FALSE)
               THEN st.valid
               ELSE Append(st.valid, monitor_id)]

\* The loop over the ids still to inspect; reads[id] is the upstream's
\* answer to the read of id.
RECURSIVE inspect(_, _, _, _)
inspect(st, monitor_ids, lresp, reads) ==
    IF monitor_ids = <<>> THEN st
    ELSE With(inspected(st, Head(monitor_ids),
                        get_monitor(st.token, Head(monitor_ids), lresp,
                                    reads[Head(monitor_ids)])),
              LAMBDA st2 : inspect(st2, Tail(monitor_ids), lresp, reads))

DisableCollectorsMutTogglesFirst(tok, monitor_ids, lresp, reads, tresp) ==
    IF monitor_ids = <<>>
    THEN [token |-> tok, sent |-> <<>>]
    ELSE With(set_collector_valid(tok, monitor_ids, FALSE, lresp, tresp),
              LAMBDA t :
                 With(inspect([token |-> t.token, sent |-> t.sent,
                               valid |-> <<>>],
                              monitor_ids, lresp, reads),
                      LAMBDA st : [token |-> st.token, sent |-> st.sent]))

disable_collectors(tok, monitor_ids, lresp, reads, tresp) ==
    IF monitor_ids = <<>>
    THEN [token |-> tok, sent |-> <<>>]
    ELSE With(inspect([token |-> tok, sent |-> <<>>, valid |-> <<>>],
                      monitor_ids, lresp, reads),
              LAMBDA st :
                 IF st.valid # <<>>
                 THEN With(set_collector_valid(st.token, st.valid, FALSE,
                                               lresp, tresp),
                           LAMBDA t : [t EXCEPT !.sent = st.sent \o t.sent])
                 ELSE [token |-> st.token, sent |-> st.sent])

enable_collectors(tok, monitor_ids, lresp, tresp) ==
    IF monitor_ids = <<>>
    THEN [token |-> tok, sent |-> <<>>]
    ELSE set_collector_valid(tok, monitor_ids, TRUE, lresp, tresp)

\* HinemosClient.set_monitor_valid
set_monitor_valid(tok, monitor_ids, valid, lresp, resp) ==
    LET MonitorValidRequest ==
            ModelOf([monitor_ids |-> "monitorIds", valid_flg |-> "validFlg"],
                    {"monitor_ids", "valid_flg"}, <<>>, <<>>)
    IN
    With(make_request(tok, "PUT",
                      <<"", "monitorsetting", "monitor_monitorValid">>,
                      serialize(MonitorValidRequest,
                                validate(MonitorValidRequest,
                                         [monitor_ids |-> monitor_ids,
                                          valid_flg |-> valid]).value),
                      lresp, resp),
         LAMBDA r :
            IF "exc" \in DOMAIN r
            THEN [token |-> r.token, sent |-> r.sent, exc |-> r.exc]
            ELSE [token |-> r.token, sent |-> r.sent])

DisableMonitorsMutSendsEmptyList(tok, monitor_ids, lresp, tresp) ==
    set_monitor_valid(tok, monitor_ids, FALSE, lresp, tresp)

enable_monitors(tok, monitor_ids, lresp, tresp) ==
    IF monitor_ids = <<>>
    THEN [token |-> tok, sent |-> <<>>]
    ELSE set_monitor_valid(tok, monitor_ids, TRUE, lresp, tresp)

disable_monitors(tok, monitor_ids, lresp, tresp) ==
    IF monitor_ids = <<>>
    THEN [token |-> tok, sent |-> <<>>]
    ELSE set_monitor_valid(tok, monitor_ids, FALSE, lresp, tresp)

(***************************************************************************)
(* SpecCollectors: one collector toggle, on a fresh client or after a      *)
(* login(), against an upstream whose answer to the read of each monitor   *)
(* is upstream[id].                                                        *)
(***************************************************************************)
MonitorIds == {"M1", "M2", "M3"}

\* Bound on the length of the id list of one toggle call.
MaxIds == 3

IdLists == UNION {[1..n -> MonitorIds] : n \in 0..MaxIds}

ReadAnswers(id) ==
    { Http(200, Obj([monitorId |-> id, predictionFlg |-> TRUE])),
      Http(200, Obj([monitorId |-> id, predictionFlg |-> FALSE])),
      Http(200, Obj([monitorId |-> id])),
      Http(404, Obj([message |-> "monitor not found"])),
      NetErr }

ToggleLoginResponses == {Http(200, Obj([token |-> [tokenId |-> "tok1"]])),
    NetErr}

ToggleResponses ==
    {Http(204, EmptyBody), Http(400, Obj([message |-> "rejected"])), NetErr}

InitCollectors ==
    /\ token = None
    /\ wire = <<>>
    /\ last = [op |-> "init"]
    /\ nCalls = 0
    /\ upstream \in {u \in [MonitorIds -> UNION {ReadAnswers(id) : id \in MonitorIds}] :
                        \A id \in MonitorIds : u[id] \in ReadAnswers(id)}

ToggleLoginChoices == IF Truthy(token) THEN {NetErr} ELSE ToggleLoginResponses

\* client.login() before the toggle
LoginFirst ==
    /\ last.op = "init"
    /\ \E lresp \in ToggleLoginResponses :
         LET r == login(token, lresp) IN
         /\ token' = r.token
         /\ wire' = wire \o LogAll(r.sent, lresp)
         /\ last' = [op |-> "login", before |-> token, result |-> r]
    /\ nCalls' = nCalls + 1
    /\ UNCHANGED upstream

DisableCollectors ==
    /\ last.op \in {"init", "login"}
    /\ \E monitor_ids \in IdLists :
       \E lresp \in ToggleLoginChoices :
       \E tresp \in ToggleResponses :
       \E r \in {disable_collectors(token, monitor_ids, lresp, upstream,
           tresp)} :
         /\ token' = r.token
         /\ wire' = wire \o LogAll(r.sent, lresp)
         /\ last' = [op |-> "disable_collectors", ids |-> monitor_ids,
                     before |-> token, result |-> r]
    /\ nCalls' = nCalls + 1
    /\ UNCHANGED upstream

EnableCollectors ==
    /\ last.op \in {"init", "login"}
    /\ \E monitor_ids \in IdLists :
       \E lresp \in ToggleLoginChoices :
       \E tresp \in ToggleResponses :
       \E r \in {enable_collectors(token, monitor_ids, lresp, tresp)} :
         /\ token' = r.token
         /\ wire' = wire \o LogAll(r.sent, lresp)
         /\ last' = [op |-> "enable_collectors", ids |-> monitor_ids,
                     before |-> token, result |-> r]
    /\ nCalls' = nCalls + 1
    /\ UNCHANGED upstream

\* enable_monitors (valid) or disable_monitors (not valid)
SetMonitors ==
    /\ last.op \in {"init", "login"}
    /\ \E monitor_ids \in IdLists :
       \E valid \in BOOLEAN :
       \E lresp \in ToggleLoginChoices :
       \E tresp \in ToggleResponses :
       \E r \in {IF valid
                 THEN enable_monitors(token, monitor_ids, lresp, tresp)
                 ELSE disable_monitors(token, monitor_ids, lresp, tresp)} :
         /\ token' = r.token
         /\ wire' = wire \o LogAll(r.sent, lresp)
         /\ last' = [op |-> IF valid THEN "enable_monitors"
                            ELSE "disable_monitors",
                     ids |-> monitor_ids, before |-> token, result |-> r]
    /\ nCalls' = nCalls + 1
    /\ UNCHANGED upstream

NextCollectors ==
    LoginFirst \/ DisableCollectors \/ EnableCollectors \/ SetMonitors

SpecCollectors == InitCollectors /\ [][NextCollectors]_vars

\* The toggle requests among the requests of the last call.
IsToggle(req) ==
    req.kind = "api" /\ req.url[Len(req.url)] = "monitor_collectorValid"

ToggleRequests ==
    IF "result" \in DOMAIN last
    THEN SelectSeq(last.result.sent, IsToggle)
    ELSE <<>>

\* The upstream's record of the monitor has prediction enabled.
PredictionEnabled(id) ==
    /\ upstream[id].kind = "http" /\ is_success(upstream[id].status)
    /\ upstream[id].body.shape = "object"
    /\ Get(upstream[id].body.obj, "predictionFlg", FALSE)

NotPredictionEnabled(id) == ~PredictionEnabled(id)

\* C3: the toggle request of disable_collectors lists exactly the ids
\* whose monitor, as read from the upstream, has no prediction enabled.
C3_SkipsPredictionEnabled ==
    last.op = "disable_collectors" =>
        \A i \in DOMAIN ToggleRequests :
            ToggleRequests[i].json.monitorIds =
                SelectSeq(last.ids, NotPredictionEnabled)

(***************************************************************************)
(* monitor_models.py: the request and response models of the monitor       *)
(* types.  Enum members are written as their values.                       *)
(***************************************************************************)
Pick(d, names) == [k \in DOMAIN d \cap names |-> d[k]]

NotifyRelationInfoRequest ==
    ModelOf([notify_id |-> "notifyId"], {"notify_id"}, <<>>, <<>>)

MonitorNumericValueInfoRequest ==
    ModelOf([monitor_numeric_type |-> "monitorNumericType",
             priority |-> "priority",
             threshold_lower_limit |-> "thresholdLowerLimit",
             threshold_upper_limit |-> "thresholdUpperLimit",
             message |-> "message"],
            {"priority"}, <<>>, <<>>)

MonitorNumericValueInfoResponse ==
    ModelOf([priority |-> "priority",
             threshold_lower_limit |-> "thresholdLowerLimit",
             threshold_upper_limit |-> "thresholdUpperLimit",
             message |-> "message"],
            {"priority"}, <<>>, <<>>)

StringValueInfoFields ==
    [order_no |-> "orderNo", priority |-> "priority", pattern |-> "pattern",
     message |-> "message", description |-> "description",
     case_sensitivity_flg |-> "caseSensitivityFlg",
     process_type |-> "processType", valid_flg |-> "validFlg"]

MonitorStringValueInfoRequest ==
    ModelOf(StringValueInfoFields, {"order_no", "priority", "pattern"},
            [case_sensitivity_flg |-> TRUE, process_type |-> TRUE,
             valid_flg |-> TRUE], <<>>)

MonitorStringValueInfoResponse ==
    ModelOf(StringValueInfoFields, {"order_no", "priority", "pattern"},
            [case_sensitivity_flg |-> TRUE, process_type |-> TRUE,
             valid_flg |-> TRUE], <<>>)

AbstractModifyMonitorRequestFields ==
    [application |-> "application", description |-> "description",
     monitor_flg |-> "monitorFlg", run_interval |-> "runInterval",
     calendar_id |-> "calendarId", facility_id |-> "facilityId",
     notify_relation_list |-> "notifyRelationList"]

\* The fields AbstractModifyNumericMonitorRequest and
\* AbstractNumericMonitorResponse add to their base class.
NumericMonitorFields ==
    [collector_flg |-> "collectorFlg", item_name |-> "itemName",
     measure |-> "measure", prediction_flg |-> "predictionFlg",
     prediction_method |-> "predictionMethod",
     prediction_analysys_range |-> "predictionAnalysysRange",
     prediction_target |-> "predictionTarget",
     prediction_application |-> "predictionApplication",
     change_flg |-> "changeFlg",
     change_analysys_range |-> "changeAnalysysRange",
     change_application |-> "changeApplication",
     numeric_value_info |-> "numericValueInfo",
     prediction_notify_relation_list |-> "predictionNotifyRelationList",
     change_notify_relation_list |-> "changeNotifyRelationList"]

\* The fields AbstractModifyStringMonitorRequest and
\* AbstractStringMonitorResponse add to their base class.
StringMonitorFields ==
    [collector_flg |-> "collectorFlg", log_format_id |-> "logFormatId",
     string_value_info |-> "stringValueInfo",
     priority_change_judgment_type |-> "priorityChangeJudgmentType"]

\* Check-info models by class name: <Type>CheckInfoRequest with its
\* required fields and defaults, <Type>CheckInfoResponse with every field
\* Optional.
CheckInfoModels ==
    [PingCheckInfoRequest |->
        ModelOf([run_count |-> "runCount", run_interval |-> "runInterval",
                 timeout |-> "timeout"], {},
        [run_count |-> 1, run_interval |-> 1000, timeout |-> 5000], <<>>),
     PingCheckInfoResponse |->
        ModelOf([run_count |-> "runCount", run_interval |-> "runInterval",
                 timeout |-> "timeout"], {}, <<>>, <<>>),
     HttpCheckInfoRequest |->
        ModelOf([request_url |-> "requestUrl", timeout |-> "timeout",
                 user_agent |-> "userAgent",
                 connect_timeout |-> "connectTimeout",
                 request_method |-> "requestMethod", post_data |-> "postData",
                 auth_type |-> "authType", auth_user |-> "authUser",
                 auth_password |-> "authPassword", proxy_flg |-> "proxyFlg",
                 proxy_url |-> "proxyUrl", proxy_port |-> "proxyPort",
                 proxy_user |-> "proxyUser",
                 proxy_password |-> "proxyPassword"], {"request_url"},
        [timeout |-> 10000, request_method |-> "GET", proxy_flg |-> FALSE],
        <<>>),
     HttpCheckInfoResponse |->
        ModelOf([request_url |-> "requestUrl", timeout |-> "timeout",
                 user_agent |-> "userAgent",
                 connect_timeout |-> "connectTimeout",
                 request_method |-> "requestMethod", post_data |-> "postData",
                 auth_type |-> "authType", auth_user |-> "authUser",
                 auth_password |-> "authPassword", proxy_flg |-> "proxyFlg",
                 proxy_url |-> "proxyUrl", proxy_port |-> "proxyPort",
                 proxy_user |-> "proxyUser",
                 proxy_password |-> "proxyPassword"], {}, <<>>, <<>>),
     SnmpCheckInfoRequest |->
        ModelOf([snmp_oid |-> "snmpOid", convert_flg |-> "convertFlg"],
                 {"snmp_oid"}, [convert_flg |-> "NONE"], <<>>),
     SnmpCheckInfoResponse |->
        ModelOf([snmp_oid |-> "snmpOid", convert_flg |-> "convertFlg"], {},
                 <<>>, <<>>),
     LogfileCheckInfoRequest |->
        ModelOf([directory |-> "directory", file_name |-> "fileName",
                 file_encoding |-> "fileEncoding",
                 file_return_code |-> "fileReturnCode",
                 pattern_head |-> "patternHead",
                 pattern_tail |-> "patternTail", max_bytes |-> "maxBytes"],
                 {"directory", "file_name"},
        [file_encoding |-> "UTF-8", file_return_code |-> "LF",
        max_bytes |-> 131072], <<>>),
     LogfileCheckInfoResponse |->
        ModelOf([directory |-> "directory", file_name |-> "fileName",
                 file_encoding |-> "fileEncoding",
                 file_return_code |-> "fileReturnCode",
                 pattern_head |-> "patternHead",
                 pattern_tail |-> "patternTail", max_bytes |-> "maxBytes"], {},
                 <<>>, <<>>),
     SqlCheckInfoRequest |->
        ModelOf([connection_url |-> "connectionUrl", user |-> "user",
        password |-> "password", jdbc_driver |-> "jdbcDriver",
        query |-> "query", timeout |-> "timeout"],
        {"connection_url", "user", "password", "jdbc_driver", "query"},
        [timeout |-> 5000], <<>>),
     SqlCheckInfoResponse |->
        ModelOf([connection_url |-> "connectionUrl", user |-> "user",
        password |-> "password", jdbc_driver |-> "jdbcDriver",
        sql |-> "sql", timeout |-> "timeout"], {}, <<>>, <<>>),
     JmxCheckInfoRequest |->
        ModelOf([port |-> "port", auth_user |-> "authUser",
        auth_password |-> "authPassword", url |-> "url",
        convert_flg |-> "convertFlg", master_id |-> "masterId",
        url_format_name |-> "urlFormatName"],
        {"port"},
        [convert_flg |-> "NONE", master_id |-> "JMX_MEMORY_HEAP_COMMITTED",
        url_format_name |-> "Default"], <<>>),
     JmxCheckInfoResponse |->
        ModelOf([port |-> "port", auth_user |-> "authUser",
        auth_password |-> "authPassword", url |-> "url",
        convert_flg |-> "convertFlg"], {}, <<>>, <<>>),
     ProcessCheckInfoRequest |->
        ModelOf([param |-> "param",
                 case_sensitivity_flg |-> "caseSensitivityFlg",
        command |-> "command"],
        {"param"}, [case_sensitivity_flg |-> TRUE, command |-> "ps"], <<>>),
     ProcessCheckInfoResponse |->
        ModelOf([param |-> "param",
                 case_sensitivity_flg |-> "caseSensitivityFlg"],
        {}, <<>>, <<>>),
     PortCheckInfoRequest |->
        ModelOf([port_no |-> "portNo", service_id |-> "serviceId",
        timeout |-> "timeout", run_count |-> "runCount",
        run_interval |-> "runInterval"],
        {"port_no"},
        [timeout |-> 5000, run_count |-> 1, run_interval |-> 1000], <<>>),
     PortCheckInfoResponse |->
        ModelOf([port_no |-> "portNo", service_id |-> "serviceId",
        timeout |-> "timeout"], {}, <<>>, <<>>),
     WinEventCheckInfoRequest |->
        ModelOf([log_name |-> "logName", source |-> "source",
                 level |-> "level", keywords |-> "keywords"], {"log_name"},
                 <<>>, <<>>),
     WinEventCheckInfoResponse |->
        ModelOf([log_name |-> "logName", source |-> "source",
                 level |-> "level", keywords |-> "keywords"], {}, <<>>, <<>>),
     CustomCheckInfoRequest |->
        ModelOf([command |-> "command", timeout |-> "timeout",
                 spec_flg |-> "specFlg", convert_flg |-> "convertFlg"],
                 {"command"},
        [timeout |-> 30000, spec_flg |-> FALSE, convert_flg |-> "NONE"],
        <<>>),
     CustomCheckInfoResponse |->
        ModelOf([command |-> "command", timeout |-> "timeout",
                 spec_flg |-> "specFlg", convert_flg |-> "convertFlg"], {},
                 <<>>, <<>>)]

\* A Modify<Type>MonitorRequest: every field Optional with default None;
\* extra is the fields the type adds, check the class of its check-info.
AbstractModifyNumericMonitorRequest(extra, check_info, check) ==
    ModelOf(AbstractModifyMonitorRequestFields @@ NumericMonitorFields @@ extra,
            {}, <<>>,
            (check_info :> One(CheckInfoModels[check])) @@
            [notify_relation_list |-> Many(NotifyRelationInfoRequest),
             numeric_value_info |-> Many(MonitorNumericValueInfoRequest),
             prediction_notify_relation_list |-> Many(NotifyRelationInfoRequest),
             change_notify_relation_list |-> Many(NotifyRelationInfoRequest)])

AbstractModifyStringMonitorRequest(extra, check_info, check) ==
    ModelOf(AbstractModifyMonitorRequestFields @@ StringMonitorFields @@ extra,
            {}, <<>>,
            (check_info :> One(CheckInfoModels[check])) @@
            [notify_relation_list |-> Many(NotifyRelationInfoRequest),
             string_value_info |-> Many(MonitorStringValueInfoRequest)])

AbstractNumericMonitorResponse(extra, check_info, check) ==
    ModelOf(AbstractMonitorResponseFields @@ NumericMonitorFields @@ extra,
            {"monitor_id"},
            [notify_relation_list |-> <<>>, numeric_value_info |-> <<>>,
             prediction_notify_relation_list |-> <<>>,
             change_notify_relation_list |-> <<>>],
            (check_info :> One(CheckInfoModels[check])) @@
            [notify_relation_list |-> Many(NotifyRelationInfoResponse),
             numeric_value_info |-> Many(MonitorNumericValueInfoResponse),
             prediction_notify_relation_list |-> Many(NotifyRelationInfoResponse),
             change_notify_relation_list |-> Many(NotifyRelationInfoResponse)])

AbstractStringMonitorResponse(extra, check_info, check) ==
    ModelOf(AbstractMonitorResponseFields @@ StringMonitorFields @@ extra,
            {"monitor_id"},
            [notify_relation_list |-> <<>>, string_value_info |-> <<>>],
            (check_info :> One(CheckInfoModels[check])) @@
            [notify_relation_list |-> Many(NotifyRelationInfoResponse),
             string_value_info |-> Many(MonitorStringValueInfoResponse)])

\* The request and response models of each monitor type, by class name.
MonitorModels ==
    [ModifyPingMonitorRequest |->
        AbstractModifyNumericMonitorRequest(
        [ping_check_info |-> "pingCheckInfo"],
        "ping_check_info", "PingCheckInfoRequest"),
     PingMonitorResponse |->
        AbstractNumericMonitorResponse(
        [ping_check_info |-> "pingCheckInfo"],
        "ping_check_info", "PingCheckInfoResponse"),
     ModifyHttpNumericMonitorRequest |->
        AbstractModifyNumericMonitorRequest(
        [http_check_info |-> "httpCheckInfo"],
        "http_check_info", "HttpCheckInfoRequest"),
     HttpNumericMonitorResponse |->
        AbstractNumericMonitorResponse(
        [http_check_info |-> "httpCheckInfo"],
        "http_check_info", "HttpCheckInfoResponse"),
     ModifyHttpStringMonitorRequest |->
        AbstractModifyStringMonitorRequest(
        [http_check_info |-> "httpCheckInfo",
        priority_change_failure_type |-> "priorityChangeFailureType"],
        "http_check_info", "HttpCheckInfoRequest"),
     HttpStringMonitorResponse |->
        AbstractStringMonitorResponse(
        [http_check_info |-> "httpCheckInfo",
        priority_change_failure_type |-> "priorityChangeFailureType"],
        "http_check_info", "HttpCheckInfoResponse"),
     ModifySnmpNumericMonitorRequest |->
        AbstractModifyNumericMonitorRequest(
        [snmp_check_info |-> "snmpCheckInfo"],
        "snmp_check_info", "SnmpCheckInfoRequest"),
     SnmpNumericMonitorResponse |->
        AbstractNumericMonitorResponse(
        [snmp_check_info |-> "snmpCheckInfo"],
        "snmp_check_info", "SnmpCheckInfoResponse"),
     ModifyLogfileMonitorRequest |->
        AbstractModifyStringMonitorRequest(
        [logfile_check_info |-> "logfileCheckInfo"],
        "logfile_check_info", "LogfileCheckInfoRequest"),
     LogfileMonitorResponse |->
        AbstractStringMonitorResponse(
        [logfile_check_info |-> "logfileCheckInfo"],
        "logfile_check_info", "LogfileCheckInfoResponse"),
     ModifySqlMonitorRequest |->
        AbstractModifyNumericMonitorRequest(
        [sql_check_info |-> "sqlCheckInfo"],
        "sql_check_info", "SqlCheckInfoRequest"),
     SqlMonitorResponse |->
        AbstractNumericMonitorResponse(
        [sql_check_info |-> "sqlCheckInfo"],
        "sql_check_info", "SqlCheckInfoResponse"),
     ModifyJmxMonitorRequest |->
        AbstractModifyNumericMonitorRequest(
        [jmx_check_info |-> "jmxCheckInfo"],
        "jmx_check_info", "JmxCheckInfoRequest"),
     JmxMonitorResponse |->
        AbstractNumericMonitorResponse(
        [jmx_check_info |-> "jmxCheckInfo"],
        "jmx_check_info", "JmxCheckInfoResponse"),
     ModifyProcessMonitorRequest |->
        AbstractModifyNumericMonitorRequest(
        [process_check_info |-> "processCheckInfo"],
        "process_check_info", "ProcessCheckInfoRequest"),
     ProcessMonitorResponse |->
        AbstractNumericMonitorResponse(
        [process_check_info |-> "processCheckInfo"],
        "process_check_info", "ProcessCheckInfoResponse"),
     ModifyPortMonitorRequest |->
        AbstractModifyNumericMonitorRequest(
        [port_check_info |-> "portCheckInfo"],
        "port_check_info", "PortCheckInfoRequest"),
     PortMonitorResponse |->
        AbstractNumericMonitorResponse(
        [port_check_info |-> "portCheckInfo"],
        "port_check_info", "PortCheckInfoResponse"),
     ModifyWinEventMonitorRequest |->
        AbstractModifyStringMonitorRequest(
        [winevent_check_info |-> "wineventCheckInfo"],
        "winevent_check_info", "WinEventCheckInfoRequest"),
     WinEventMonitorResponse |->
        AbstractStringMonitorResponse(
        [winevent_check_info |-> "wineventCheckInfo"],
        "winevent_check_info", "WinEventCheckInfoResponse"),
     ModifyCustomMonitorRequest |->
        AbstractModifyNumericMonitorRequest(
        [custom_check_info |-> "customCheckInfo"],
        "custom_check_info", "CustomCheckInfoRequest"),
     CustomMonitorResponse |->
        AbstractNumericMonitorResponse(
        [custom_check_info |-> "customCheckInfo"],
        "custom_check_info", "CustomCheckInfoResponse")]

(***************************************************************************)
(* MonitorAPI: the update builders (monitor.py).                           *)
(***************************************************************************)
\* What the eleven builders differ in: the sub-path of their endpoints, the
\* models of their requests and responses, the field holding the check-info
\* and the words of their not-found message.
Builders ==
    LET classes ==
      [update_ping_monitor |->
            [kind |-> "ping", request |-> "ModifyPingMonitorRequest",
             response |-> "PingMonitorResponse",
             check_info |-> "ping_check_info",
                 not_found |-> "Monitor with ID "],
         update_http_numeric_monitor |->
            [kind |-> "httpNumeric",
             request |-> "ModifyHttpNumericMonitorRequest",
             response |-> "HttpNumericMonitorResponse",
             check_info |-> "http_check_info",
             not_found |-> "HTTP numeric monitor with ID "],
         update_http_string_monitor |->
            [kind |-> "httpString",
             request |-> "ModifyHttpStringMonitorRequest",
             response |-> "HttpStringMonitorResponse",
             check_info |-> "http_check_info",
             not_found |-> "HTTP string monitor with ID "],
         update_snmp_monitor |->
            [kind |-> "snmpNumeric",
             request |-> "ModifySnmpNumericMonitorRequest",
             response |-> "SnmpNumericMonitorResponse",
             check_info |-> "snmp_check_info",
             not_found |-> "SNMP numeric monitor with ID "],
         update_logfile_monitor |->
            [kind |-> "logfile", request |-> "ModifyLogfileMonitorRequest",
             response |-> "LogfileMonitorResponse",
             check_info |-> "logfile_check_info",
             not_found |-> "Logfile monitor with ID "],
         update_sql_monitor |->
            [kind |-> "sqlNumeric", request |-> "ModifySqlMonitorRequest",
             response |-> "SqlMonitorResponse",
             check_info |-> "sql_check_info", not_found |-> "SQL monitor "],
         update_jmx_monitor |->
            [kind |-> "jmx", request |-> "ModifyJmxMonitorRequest",
             response |-> "JmxMonitorResponse",
             check_info |-> "jmx_check_info", not_found |-> "JMX monitor "],
         update_process_monitor |->
            [kind |-> "process", request |-> "ModifyProcessMonitorRequest",
             response |-> "ProcessMonitorResponse",
             check_info |-> "process_check_info",
             not_found |-> "Process monitor "],
         update_port_monitor |->
            [kind |-> "serviceport", request |-> "ModifyPortMonitorRequest",
             response |-> "PortMonitorResponse",
             check_info |-> "port_check_info", not_found |-> "Port monitor "],
         update_winevent_monitor |->
            [kind |-> "winevent", request |-> "ModifyWinEventMonitorRequest",
             response |-> "WinEventMonitorResponse",
             check_info |-> "winevent_check_info",
             not_found |-> "Windows Event monitor "],
         update_custom_monitor |->
            [kind |-> "customNumeric", request |-> "ModifyCustomMonitorRequest",
             response |-> "CustomMonitorResponse",
             check_info |-> "custom_check_info",
             not_found |-> "Custom monitor "]]
    IN [name \in DOMAIN classes |->
          [classes[name] EXCEPT !.request = MonitorModels[@],
                                !.response = MonitorModels[@]]]

\* HinemosClient.get_<type>_monitor_list
get_monitor_list(tok, b, lresp, resp) ==
    client_call(tok,
                [name |-> "get_monitor_list", method |-> "GET",
                 endpoint |-> <<"", "monitorsetting", b.kind>>,
                 returns |-> "list", model |-> b.response],
                lresp, resp)

\* HinemosClient.modify_<type>_monitor
modify_monitor(tok, b, monitor_id, monitor, lresp, resp) ==
    client_call(tok,
                [name |-> "modify_monitor", method |-> "PUT",
                 endpoint |-> <<"", "monitorsetting", b.kind, monitor_id>>,
                 json |-> serialize(b.request, monitor),
                 returns |-> "typed", model |-> b.response],
                lresp, resp)

\* next((m for m in current if m.monitor_id == monitor_id), None): the
\* sequence of the first match, <<>> for None.
LookupMutTakesTheFirst(current, monitor_id) ==
    IF current = <<>> THEN <<>> ELSE <<current[1]>>

lookup(current, monitor_id) ==
    LET hits == {i \in DOMAIN current : current[i].monitor_id = monitor_id}
    IN IF hits = {} THEN <<>>
       ELSE <<current[CHOOSE i \in hits : \A j \in hits : i <= j]>>

MonitorNumericTypeMutBySignOnly(response) ==
    IF "threshold_lower_limit" \in DOMAIN response
       /\ response.threshold_lower_limit < 0
    THEN "CHANGE" ELSE "BASIC"

\* MonitorAPI._convert_numeric_value_response_to_request; the limits are
\* whole numbers here.
monitor_numeric_type(response) ==
    IF {"threshold_lower_limit",
        "threshold_upper_limit"} \subseteq DOMAIN response
    THEN LET lower == response.threshold_lower_limit
             upper == response.threshold_upper_limit
         IN IF lower < 0 \/ (lower = 0 /\ upper = 0) THEN "CHANGE"
            ELSE IF lower > upper /\ lower >= 1000 THEN "BASIC"
            ELSE "BASIC"
    ELSE "BASIC"

convert_numeric_value_response_to_request(response_list) ==
    [i \in DOMAIN response_list |->
        validate(MonitorNumericValueInfoRequest,
                 [monitor_numeric_type |-> monitor_numeric_type(response_list[i])]
                 @@ Pick(response_list[i],
                         {"priority", "threshold_lower_limit",
                          "threshold_upper_limit", "message"})).value]

\* MonitorAPI._convert_notify_relation_response_to_request
convert_notify_relation_response_to_request(response_list) ==
    [i \in DOMAIN response_list |->
        validate(NotifyRelationInfoRequest,
                 [notify_id |-> response_list[i].notify_id]).value]

\* MonitorAPI._convert_string_value_response_to_request
convert_string_value_response_to_request(response_list) ==
    [i \in DOMAIN response_list |->
        validate(MonitorStringValueInfoRequest,
                 Pick(response_list[i], DOMAIN StringValueInfoFields)).value]

\* The snapshot the numeric builders take of current_monitor ("Include
\* all required fields from current monitor").
numeric_update_data(current_monitor) ==
    Pick(current_monitor,
         {"facility_id", "collector_flg", "application", "item_name",
          "measure", "prediction_flg", "prediction_method",
          "prediction_target", "prediction_analysys_range",
          "prediction_application", "change_flg", "change_analysys_range",
          "change_application"})
    @@ [numeric_value_info |->
            convert_numeric_value_response_to_request(
                current_monitor.numeric_value_info),
        prediction_notify_relation_list |->
            convert_notify_relation_response_to_request(
                current_monitor.prediction_notify_relation_list),
        change_notify_relation_list |->
            convert_notify_relation_response_to_request(
                current_monitor.change_notify_relation_list),
        notify_relation_list |->
            convert_notify_relation_response_to_request(
                current_monitor.notify_relation_list)]

\* The snapshot the string builders take; more is
\* {"priority_change_failure_type"} for update_http_string_monitor.
string_update_data(current_monitor, more) ==
    Pick(current_monitor,
         {"facility_id", "collector_flg", "application", "log_format_id",
          "priority_change_judgment_type"} \cup more)
    @@ [string_value_info |->
            convert_string_value_response_to_request(
                current_monitor.string_value_info),
        notify_relation_list |->
            convert_notify_relation_response_to_request(
                current_monitor.notify_relation_list)]

\* "if description is not None", "if run_interval is not None"
described(args) == Pick(args, {"description", "run_interval"})

\* "if patterns is not None": the patterns numbered from 1, as
\* [value |-> the entry of update_data] or [exc |-> the error raised].
patterned(args) ==
    IF "patterns" \notin DOMAIN args THEN [value |-> <<>>]
    ELSE IF \E i \in DOMAIN args.patterns : "pattern" \notin DOMAIN args.patterns[i]
    THEN [exc |-> [type |-> "KeyError"]]
    ELSE [value |->
            [string_value_info |->
                [i \in DOMAIN args.patterns |->
                    LET pattern == args.patterns[i] IN
                    validate(MonitorStringValueInfoRequest,
                        [order_no |-> i,
                         priority |-> Get(pattern, "priority", "WARNING"),
                         pattern |-> pattern.pattern,
                         message |-> Get(pattern, "message", ""),
                         description |-> Get(pattern, "description", ""),
                         case_sensitivity_flg |->
                             Get(pattern, "case_sensitive", TRUE),
                         process_type |-> Get(pattern, "process_type", TRUE),
                         valid_flg |-> Get(pattern, "valid", TRUE)]).value]]]

\* "x if x is not None else (current_monitor.<check_info>.<field> if
\* current_monitor.<check_info> else default)" as the keyword argument field.
chosen(args, param, current_monitor, check_info, field, default) ==
    IF param \in DOMAIN args THEN (field :> args[param])
    ELSE IF check_info \in DOMAIN current_monitor
    THEN Pick(current_monitor[check_info], {field})
    ELSE (field :> default)

\* <Type>CheckInfoRequest(...) with the keyword arguments passed; none of
\* the fields the builders pass accepts None.
check_info_request(cls, passed, kw) ==
    IF passed \subseteq DOMAIN kw
    THEN validate(CheckInfoModels[cls], kw)
    ELSE [exc |-> [type |-> "ValidationError"]]

ping_check_info(current_monitor, args) ==
    IF DOMAIN args \cap {"run_count", "timeout"} = {} THEN <<>>
    ELSE <<check_info_request("PingCheckInfoRequest",
               {"run_count", "run_interval", "timeout"},
               chosen(args, "run_count", current_monitor,
                      "ping_check_info", "run_count", 1)
               @@ [run_interval |-> 1000]
               @@ chosen(args, "timeout", current_monitor,
                         "ping_check_info", "timeout", 5000))>>

http_check_info(current_monitor, args) ==
    IF DOMAIN args \cap {"url", "timeout"} = {} THEN <<>>
    ELSE <<check_info_request("HttpCheckInfoRequest",
               {"request_url", "timeout"},
               chosen(args, "url", current_monitor,
                      "http_check_info", "request_url", "http://example.com")
               @@ chosen(args, "timeout", current_monitor,
                         "http_check_info", "timeout", 10000))>>

snmp_check_info(current_monitor, args) ==
    IF DOMAIN args \cap {"oid", "convert_flg"} = {} THEN <<>>
    ELSE <<check_info_request("SnmpCheckInfoRequest",
               {"snmp_oid", "convert_flg"},
               chosen(args, "oid", current_monitor,
                      "snmp_check_info", "snmp_oid", "1.3.6.1.2.1.1.3.0")
               @@ chosen(args, "convert_flg", current_monitor,
                         "snmp_check_info", "convert_flg", "NONE"))>>

logfile_check_info(current_monitor, args) ==
    IF DOMAIN args \cap {"directory", "filename", "encoding"} = {} THEN <<>>
    ELSE <<check_info_request("LogfileCheckInfoRequest",
               {"directory", "file_name", "file_encoding"},
               chosen(args, "directory", current_monitor,
                      "logfile_check_info", "directory", "/var/log")
               @@ chosen(args, "filename", current_monitor,
                         "logfile_check_info", "file_name", "syslog")
               @@ chosen(args, "encoding", current_monitor,
                         "logfile_check_info", "file_encoding", "UTF-8"))>>

\* update_data once the check-info (<<>> for None) and the keyword
\* arguments are laid over the data gathered before them.
merged(data, check_info, info, args) ==
    IF info # <<>> /\ "exc" \in DOMAIN info[1] THEN [exc |-> info[1].exc]
    ELSE [value |->
            Get(args, "kwargs", <<>>)
            @@ (IF info = <<>> THEN <<>> ELSE (check_info :> info[1].value))
            @@ data]

\* update_data of each builder, as [value |-> the dict] or [exc |-> ...].
ping_update_data(current_monitor, args) ==
    merged(described(args) @@ numeric_update_data(current_monitor),
           "ping_check_info", ping_check_info(current_monitor, args), args)

http_numeric_update_data(current_monitor, args) ==
    merged(described(args) @@ numeric_update_data(current_monitor),
           "http_check_info", http_check_info(current_monitor, args), args)

snmp_update_data(current_monitor, args) ==
    merged(described(args) @@ numeric_update_data(current_monitor),
           "snmp_check_info", snmp_check_info(current_monitor, args), args)

http_string_update_data(current_monitor, args) ==
    IF "exc" \in DOMAIN patterned(args) THEN patterned(args)
    ELSE merged(patterned(args).value @@ described(args)
                @@ string_update_data(current_monitor,
                                      {"priority_change_failure_type"}),
                "http_check_info", http_check_info(current_monitor, args),
                args)

logfile_update_data(current_monitor, args) ==
    IF "exc" \in DOMAIN patterned(args) THEN patterned(args)
    ELSE merged(patterned(args).value @@ described(args)
                @@ string_update_data(current_monitor, {}),
                "logfile_check_info",
                logfile_check_info(current_monitor, args), args)

\* The six builders that copy the keyword arguments that are not None; a
\* check-info given as a dict becomes <Type>CheckInfoRequest(**dict) when
\* the request is validated.
kwargs_update_data(current_monitor, args) ==
    [value |-> Get(args, "kwargs", <<>>)]

update_data_of(name, current_monitor, args) ==
    CASE name = "update_ping_monitor" ->
            ping_update_data(current_monitor, args)
      [] name = "update_http_numeric_monitor" ->
            http_numeric_update_data(current_monitor, args)
      [] name = "update_http_string_monitor" ->
            http_string_update_data(current_monitor, args)
      [] name = "update_snmp_monitor" ->
            snmp_update_data(current_monitor, args)
      [] name = "update_logfile_monitor" ->
            logfile_update_data(current_monitor, args)
      [] OTHER -> kwargs_update_data(current_monitor, args)

\* What the eleven builders share: the list read, the lookup and its
\* ValueError, the request built from update_data, the modify call.  rresp
\* is the upstream's answer to the list read, mresp to the modify request.
update_monitor(tok, name, monitor_id, args, lresp, rresp, mresp) ==
    With(get_monitor_list(tok, Builders[name], lresp, rresp),
         LAMBDA current :
            IF "exc" \in DOMAIN current THEN current
            ELSE With(lookup(current.value, monitor_id),
         LAMBDA current_monitor :
            IF current_monitor = <<>>
            THEN [token |-> current.token, sent |-> current.sent,
                  exc |-> [type |-> "ValueError",
                           message |-> <<Builders[name].not_found,
                                         monitor_id, " not found">>]]
            ELSE With(update_data_of(name, current_monitor[1], args),
         LAMBDA update_data :
            IF "exc" \in DOMAIN update_data
            THEN [token |-> current.token, sent |-> current.sent,
                  exc |-> update_data.exc]
            ELSE With(validate(Builders[name].request, update_data.value),
         LAMBDA modify_request :
            IF "exc" \in DOMAIN modify_request
            THEN [token |-> current.token, sent |-> current.sent,
                  exc |-> modify_request.exc]
            ELSE With(modify_monitor(current.token, Builders[name],
                                     monitor_id, modify_request.value,
                                     lresp, mresp),
         LAMBDA modified :
            [modified EXCEPT !.sent = current.sent \o modified.sent])))))

(***************************************************************************)
(* SpecUpdate: one update builder called on a fresh client or after a      *)
(* login(), against an upstream whose monitors of the builder's type are   *)
(* the ones upstream lists.                                                *)
(***************************************************************************)
\* What the upstream holds of a monitor, in the words of the response
\* models.
CommonRecord(id) ==
    [monitorId |-> id, description |-> "old description",
     monitorFlg |-> TRUE, runInterval |-> "MIN_01", calendarId |-> "CAL1",
     facilityId |-> "NODE1", application |-> "app",
     ownerRoleId |-> "ALL_USERS", collectorFlg |-> TRUE,
     notifyRelationList |->
        <<[notifyId |-> "EVENT_FOR_POLLING", notifyType |-> "EVENT"]>>]

NumericRecord ==
    [itemName |-> "item", measure |-> "msec", predictionFlg |-> TRUE,
     predictionMethod |-> "POLYNOMIAL_2", predictionAnalysysRange |-> 30,
     predictionTarget |-> 30, predictionApplication |-> "pred",
     changeFlg |-> TRUE, changeAnalysysRange |-> 30,
     changeApplication |-> "chg",
     numericValueInfo |->
        <<[priority |-> "INFO", thresholdLowerLimit |-> 0,
           thresholdUpperLimit |-> 1000, message |-> "ok"],
          [priority |-> "WARNING", thresholdLowerLimit |-> -1,
           thresholdUpperLimit |-> 1]>>,
     predictionNotifyRelationList |-> <<[notifyId |-> "MAIL_PRED"]>>,
     changeNotifyRelationList |-> <<>>]

StringRecord ==
    [logFormatId |-> "fmt",
     priorityChangeJudgmentType |-> "ACROSS_MONITOR_DETAIL_ID",
     priorityChangeFailureType |-> "PRIORITY_CHANGE",
     stringValueInfo |->
        <<[orderNo |-> 1, priority |-> "CRITICAL", pattern |-> ".*error.*",
           message |-> "found", description |-> "errors",
           caseSensitivityFlg |-> FALSE, processType |-> TRUE,
           validFlg |-> FALSE]>>]

CheckInfoRecord ==
    [ping_check_info |->
        [runCount |-> 2, runInterval |-> 2000, timeout |-> 8000],
     http_check_info |->
        [requestUrl |-> "http://old", timeout |-> 10000,
         userAgent |-> "agent", connectTimeout |-> 3000,
         requestMethod |-> "POST", postData |-> "a=1", proxyFlg |-> TRUE,
         proxyUrl |-> "http://proxy", proxyPort |-> 8080],
     snmp_check_info |->
        [snmpOid |-> "1.3.6.1.2.1.1.5.0", convertFlg |-> "DELTA"],
     logfile_check_info |->
        [directory |-> "/opt/log", fileName |-> "app.log",
         fileEncoding |-> "SJIS", fileReturnCode |-> "CRLF",
         maxBytes |-> 4096],
     sql_check_info |->
        [connectionUrl |-> "jdbc:db", user |-> "u", password |-> "p",
         jdbcDriver |-> "driver", sql |-> "SELECT 1", timeout |-> 3000],
     jmx_check_info |->
        [port |-> 9999, url |-> "service:jmx", convertFlg |-> "DELTA"],
     process_check_info |->
        [param |-> "httpd", caseSensitivityFlg |-> FALSE],
     port_check_info |->
        [portNo |-> 22, serviceId |-> "SSH", timeout |-> 3000],
     winevent_check_info |->
        [logName |-> "System", source |-> "disk", level |-> 2],
     custom_check_info |->
        [command |-> "echo 1", timeout |-> 10000, specFlg |-> TRUE,
         convertFlg |-> "DELTA"]]

DefaultThresholdsMutRepeatsAPair(args) ==
    [t \in {"ping", "http_numeric", "snmp", "sql", "jmx", "process", "port",
            "custom"} |->
        <<<<"CHANGE", "INFO", -1, 1>>, <<"CHANGE", "WARNING", -2, 2>>,
          <<"CHANGE", "CRITICAL", 0, 0>>, <<"CHANGE", "UNKNOWN", 0, 0>>,
          <<"BASIC", "INFO", 0, 80>>, <<"BASIC", "WARNING", 80, 90>>,
          <<"BASIC", "WARNING", 90, 999999>>, <<"BASIC", "UNKNOWN", 0, 0>>>>]

\* The eight default entries of each numeric create builder, as
\* <<monitor_numeric_type, priority, threshold_lower_limit,
\* threshold_upper_limit, message>> (message where the builder gives one);
\* the limits are whole numbers here.
default_thresholds(args) ==
    LET warning_threshold == Get(args, "warning_threshold", 80)
        critical_threshold == Get(args, "critical_threshold", 90)
        min_count == Get(args, "min_count", 1)
        max_count == Get(args, "max_count", 10)
    IN
    [ping |-> \* monitor.py 303-312
        <<<<"CHANGE", "INFO", -1, 1>>,
          <<"CHANGE", "WARNING", -2, 2>>,
          <<"CHANGE", "CRITICAL", 0, 0>>,
          <<"CHANGE", "UNKNOWN", 0, 0>>,
          <<"BASIC", "INFO", 1000, 1>>,
          <<"BASIC", "WARNING", 3000, 51>>,
          <<"BASIC", "CRITICAL", 0, 0>>,
          <<"BASIC", "UNKNOWN", 0, 0>>>>,
     http_numeric |-> \* monitor.py 484-493
        <<<<"BASIC", "WARNING", 0, 5000>>,
          <<"CHANGE", "INFO", -1, 1>>,
          <<"CHANGE", "WARNING", -2, 2>>,
          <<"CHANGE", "UNKNOWN", 0, 0>>,
          <<"BASIC", "CRITICAL", 0, 0>>,
          <<"CHANGE", "CRITICAL", 0, 0>>,
          <<"BASIC", "UNKNOWN", 0, 0>>,
          <<"BASIC", "INFO", 0, 1000>>>>,
     snmp |-> \* monitor.py 844-853
        <<<<"BASIC", "WARNING", 0, 80>>,
          <<"BASIC", "CRITICAL", 0, 0>>,
          <<"CHANGE", "CRITICAL", 0, 0>>,
          <<"BASIC", "UNKNOWN", 0, 0>>,
          <<"CHANGE", "WARNING", -2, 2>>,
          <<"CHANGE", "INFO", -1, 1>>,
          <<"CHANGE", "UNKNOWN", 0, 0>>,
          <<"BASIC", "INFO", 0, 50>>>>,
     sql |-> \* monitor.py 1196-1253
        <<<<"CHANGE", "INFO", -1, 1,
            "SQL result change is normal">>,
          <<"CHANGE", "WARNING", -2, 2,
            "SQL result change is in warning range">>,
          <<"CHANGE", "CRITICAL", 0, 0,
            "SQL result change is critical">>,
          <<"CHANGE", "UNKNOWN", 0, 0,
            "SQL result change monitoring failed">>,
          <<"BASIC", "INFO", 0, warning_threshold,
            "SQL query result is normal">>,
          <<"BASIC", "WARNING", warning_threshold, critical_threshold,
            "SQL query result is in warning range">>,
          <<"BASIC", "CRITICAL", critical_threshold, 999999,
            "SQL query result is in critical range">>,
          <<"BASIC", "UNKNOWN", 0, 0,
            "SQL query execution unknown">>>>,
     jmx |-> \* monitor.py 1359-1416
        <<<<"CHANGE", "INFO", -1, 1,
            "JMX change is normal">>,
          <<"CHANGE", "WARNING", -2, 2,
            "JMX change is in warning range">>,
          <<"CHANGE", "CRITICAL", 0, 0,
            "JMX change is critical">>,
          <<"CHANGE", "UNKNOWN", 0, 0,
            "JMX change monitoring failed">>,
          <<"BASIC", "INFO", 0, 0,
            "JMX basic info">>,
          <<"BASIC", "WARNING", 0, 0,
            "JMX basic warning">>,
          <<"BASIC", "CRITICAL", 0, 0,
            "JMX basic critical">>,
          <<"BASIC", "UNKNOWN", 0, 0,
            "JMX basic unknown">>>>,
     process |-> \* monitor.py 1513-1570
        <<<<"CHANGE", "INFO", -1, 1,
            "Process change is normal">>,
          <<"CHANGE", "WARNING", -2, 2,
            "Process change is in warning range">>,
          <<"CHANGE", "CRITICAL", 0, 0,
            "Process change is critical">>,
          <<"CHANGE", "UNKNOWN", 0, 0,
            "Process change monitoring failed">>,
          <<"BASIC", "INFO", min_count, max_count,
            "Process count is normal">>,
          <<"BASIC", "WARNING", 0, 0,
            "Process basic warning">>,
          <<"BASIC", "CRITICAL", 0, 0,
            "Process basic critical">>,
          <<"BASIC", "UNKNOWN", 0, 0,
            "Process basic unknown">>>>,
     port |-> \* monitor.py 1666-1723
        <<<<"CHANGE", "INFO", -1, 1,
            "Port response change is normal">>,
          <<"CHANGE", "WARNING", -2, 2,
            "Port response change is in warning range">>,
          <<"CHANGE", "CRITICAL", 0, 0,
            "Port response change is critical">>,
          <<"CHANGE", "UNKNOWN", 0, 0,
            "Port response change monitoring failed">>,
          <<"BASIC", "INFO", 0, 100,
            "Port response time is normal">>,
          <<"BASIC", "WARNING", 100, 1000,
            "Port response time is slow">>,
          <<"BASIC", "CRITICAL", 1000, 999999,
            "Port response time is very slow">>,
          <<"BASIC", "UNKNOWN", 0, 0,
            "Port monitoring unknown">>>>,
     custom |-> \* monitor.py 1972-2029
        <<<<"CHANGE", "INFO", -1, 1,
            "Command result change is normal">>,
          <<"CHANGE", "WARNING", -2, 2,
            "Command result change is in warning range">>,
          <<"CHANGE", "CRITICAL", 0, 0,
            "Command result change is critical">>,
          <<"CHANGE", "UNKNOWN", 0, 0,
            "Command result change monitoring failed">>,
          <<"BASIC", "INFO", 0, warning_threshold,
            "Command result is normal">>,
          <<"BASIC", "WARNING", warning_threshold, critical_threshold,
            "Command result is in warning range">>,
          <<"BASIC", "CRITICAL", critical_threshold, 999999,
            "Command result is in critical range">>,
          <<"BASIC", "UNKNOWN", 0, 0,
            "Command execution unknown">>>>]

\* The record of monitor id as the list read of the builder returns it.
MonitorRecord(name, id, variant) ==
    LET b == Builders[name]
        full == CommonRecord(id)
                @@ (IF "numeric_value_info" \in DOMAIN b.request.fields
                    THEN NumericRecord
                    ELSE Pick(StringRecord,
                              {b.response.fields[f] : f \in DOMAIN b.response.fields}))
        created == [update_ping_monitor |-> "ping",
                    update_http_numeric_monitor |-> "http_numeric",
                    update_snmp_monitor |-> "snmp",
                    update_sql_monitor |-> "sql",
                    update_jmx_monitor |-> "jmx",
                    update_process_monitor |-> "process",
                    update_port_monitor |-> "port"]
        table == default_thresholds(<<>>)[created[name]]
    IN CASE variant = "full" ->
                full @@ (b.response.fields[b.check_info]
                            :> CheckInfoRecord[b.check_info])
         [] variant = "created" ->
                \* the monitor as stored after a create with the default table
                (IF name \in DOMAIN created
                 THEN [numericValueInfo |->
                         [i \in DOMAIN table |->
                            [monitorNumericType |-> table[i][1],
                             priority |-> table[i][2],
                             thresholdLowerLimit |-> table[i][3],
                             thresholdUpperLimit |-> table[i][4]]]]
                 ELSE <<>>)
                @@ full @@ (b.response.fields[b.check_info]
                               :> CheckInfoRecord[b.check_info])
         [] variant = "no_check_info" -> full
         [] OTHER -> [monitorId |-> id]

ServerStates ==
    { <<>>,
      <<[id |-> "M1", variant |-> "full"]>>,
      <<[id |-> "M2", variant |-> "full"], [id |-> "M1", variant |-> "full"]>>,
      <<[id |-> "M1", variant |-> "bare"], [id |-> "M1", variant |-> "full"]>>,
      <<[id |-> "M2", variant |-> "bare"],
        [id |-> "M1", variant |-> "no_check_info"]>>,
      <<[id |-> "M1", variant |-> "created"]>> }

\* The upstream's answer to the list read of the builder.
ListAnswer(name, server) ==
    Http(200, Arr([i \in DOMAIN server |->
                     Obj(MonitorRecord(name, server[i].id,
                         server[i].variant))]))

\* The arguments a caller may give: every selection of these.
Selections(all) == {Pick(all, S) : S \in SUBSET DOMAIN all}

PingArgs ==
    Selections([description |-> "new description", run_interval |-> "MIN_30",
                run_count |-> 3, timeout |-> 3000,
                kwargs |-> [monitor_flg |-> FALSE]])

HttpNumericArgs ==
    Selections([description |-> "new description", run_interval |-> "MIN_30",
                url |-> "http://new", timeout |-> 3000,
                kwargs |-> [application |-> "new app"]])

HttpStringArgs ==
    Selections([description |-> "new description", url |-> "http://new",
                timeout |-> 3000,
                patterns |-> <<[pattern |-> ".*a.*"],
                               [pattern |-> ".*b.*", priority |-> "CRITICAL",
                                case_sensitive |-> FALSE]>>,
                kwargs |-> [calendar_id |-> "CAL2"]])

SnmpArgs ==
    Selections([description |-> "new description", run_interval |-> "MIN_30",
                oid |-> "1.3.6.1.2.1.1.3.0", convert_flg |-> "NONE",
                kwargs |-> [monitor_flg |-> FALSE]])

LogfileArgs ==
    Selections([description |-> "new description", directory |-> "/var/log",
                filename |-> "syslog", encoding |-> "UTF-8",
                patterns |-> <<[pattern |-> ".*a.*"]>>])

\* A check-info the caller may give to the builders taking **kwargs only.
CheckInfoArgs ==
    [sql_check_info |->
        [connection_url |-> "jdbc:new", user |-> "u2", password |-> "p2",
         jdbc_driver |-> "driver", query |-> "SELECT 2"],
     jmx_check_info |-> [port |-> 1099],
     process_check_info |-> [param |-> "nginx"],
     port_check_info |-> [port_no |-> 443],
     winevent_check_info |-> [log_name |-> "Application"],
     custom_check_info |-> [command |-> "echo 2"]]

KwargsArgs(name) ==
    LET check_info == Builders[name].check_info IN
    { <<>>,
      [kwargs |-> [description |-> "new description"]],
      [kwargs |-> [description |-> "new description",
                   facility_id |-> "NODE2"]],
      [kwargs |-> (check_info :> CheckInfoArgs[check_info])],
      [kwargs |-> (check_info :> [timeout |-> 1])] }

InitUpdate ==
    /\ token = None
    /\ wire = <<>>
    /\ last = [op |-> "init"]
    /\ nCalls = 0
    /\ upstream \in ServerStates

\* A call of the builder named name with arguments from Args.
Update(name, Args) ==
    /\ last.op \in {"init", "login"}
    /\ \E monitor_id \in {"M1", "M2"} :
       \E args \in Args :
       \E lresp \in ToggleLoginChoices :
       \E rresp \in {ListAnswer(name, upstream),
                      Http(500, Obj([message |-> "internal error"]))} :
       \E mresp \in {Http(200, Obj([monitorId |-> monitor_id])),
                      Http(400, Obj([message |-> "rejected"]))} :
       \E r \in {update_monitor(token, name, monitor_id, args,
                                lresp, rresp, mresp)} :
         /\ token' = r.token
         /\ wire' = wire \o LogAll(r.sent, lresp)
         /\ last' = [op |-> name, id |-> monitor_id, args |-> args,
                     before |-> token, rresp |-> rresp, result |-> r]
    /\ nCalls' = nCalls + 1
    /\ UNCHANGED upstream

\* One update builder called once: the five with parameters of their own,
\* and the six that take the monitor's fields as keyword arguments only.
NextUpdate ==
    \/ LoginFirst
    \/ Update("update_ping_monitor", PingArgs)
    \/ Update("update_http_numeric_monitor", HttpNumericArgs)
    \/ Update("update_http_string_monitor", HttpStringArgs)
    \/ Update("update_snmp_monitor", SnmpArgs)
    \/ Update("update_logfile_monitor", LogfileArgs)
    \/ Update("update_sql_monitor", KwargsArgs("update_sql_monitor"))
    \/ Update("update_jmx_monitor", KwargsArgs("update_jmx_monitor"))
    \/ Update("update_process_monitor", KwargsArgs("update_process_monitor"))
    \/ Update("update_port_monitor", KwargsArgs("update_port_monitor"))
    \/ Update("update_winevent_monitor",
              KwargsArgs("update_winevent_monitor"))
    \/ Update("update_custom_monitor", KwargsArgs("update_custom_monitor"))

SpecUpdate == InitUpdate /\ [][NextUpdate]_vars

(***************************************************************************)
(* Properties of the update builders, checked under SpecUpdate.            *)
(***************************************************************************)
IsUpdate == last.op \in DOMAIN Builders

Sent == IF "result" \in DOMAIN last THEN last.result.sent ELSE <<>>

IsListRead(req) == req.kind = "api" /\ req.method = "GET"
IsModify(req) == req.kind = "api" /\ req.method = "PUT"

ModifyRequests == SelectSeq(Sent, IsModify)

\* The list read of the last call was answered with the list of monitors.
ListWasRead ==
    /\ \E i \in DOMAIN Sent : IsListRead(Sent[i])
    /\ last.rresp.kind = "http" /\ is_success(last.rresp.status)

ListedIds ==
    {last.rresp.body.items[i].obj.monitorId : i \in DOMAIN last.rresp.body.items}

\* The record of the target monitor in the list that was read.
FetchedRecord ==
    LET items == last.rresp.body.items
    IN items[CHOOSE i \in DOMAIN items :
                /\ items[i].obj.monitorId = last.id
                /\ \A j \in 1..(i-1) : items[j].obj.monitorId # last.id].obj

\* The body of the modify request.
Payload == ModifyRequests[1].json

\* The parameters of a builder that stand for a field of its check-info.
CheckInfoParams ==
    [update_ping_monitor |-> [run_count |-> "run_count", timeout |-> "timeout"],
     update_http_numeric_monitor |->
        [url |-> "request_url", timeout |-> "timeout"],
     update_http_string_monitor |->
        [url |-> "request_url", timeout |-> "timeout"],
     update_snmp_monitor |-> [oid |-> "snmp_oid",
         convert_flg |-> "convert_flg"],
     update_logfile_monitor |->
        [directory |-> "directory", filename |-> "file_name",
         encoding |-> "file_encoding"]]

\* The check-info fields the caller of the last call supplied.
SuppliedCheckInfoFields ==
    IF last.op \in DOMAIN CheckInfoParams
    THEN {CheckInfoParams[last.op][param] :
            param \in DOMAIN CheckInfoParams[last.op] \cap DOMAIN last.args}
    ELSE {}

\* The fields of the request the caller of the last call supplied.
SuppliedFields ==
    (DOMAIN last.args \cap {"description", "run_interval"})
    \cup DOMAIN Get(last.args, "kwargs", <<>>)
    \cup (IF "patterns" \in DOMAIN last.args THEN {"string_value_info"} ELSE {})
    \cup (IF SuppliedCheckInfoFields # {}
          THEN {Builders[last.op].check_info} ELSE {})

\* Each of the fields that the fetched record has is in the payload with
\* the fetched value, field by field of the request model and of the
\* models nested in it.
RECURSIVE Kept(_, _, _, _)
Kept(model, fields, fetched, payload) ==
    \A f \in fields :
        LET a == model.fields[f] IN
        a \in DOMAIN fetched =>
            /\ a \in DOMAIN payload
            /\ IF f \notin DOMAIN model.nested THEN payload[a] = fetched[a]
               ELSE LET sub == model.nested[f].model IN
                    IF model.nested[f].many
                    THEN /\ Len(payload[a]) = Len(fetched[a])
                         /\ \A i \in DOMAIN fetched[a] :
                               Kept(sub, DOMAIN sub.fields,
                                    fetched[a][i], payload[a][i])
                    ELSE Kept(sub, DOMAIN sub.fields, fetched[a], payload[a])

\* C4: the payload of the modify request of an update builder holds every
\* field of the fetched record that the caller left unspecified, with the
\* fetched value, and the caller's description and interval over them.
C4_PayloadIsSnapshotWithOverlay ==
    IsUpdate /\ ModifyRequests # <<>> =>
        LET request == Builders[last.op].request IN
        /\ Kept(request, DOMAIN request.fields \ SuppliedFields,
                FetchedRecord, Payload)
        /\ \A f \in DOMAIN described(last.args) :
              /\ request.fields[f] \in DOMAIN Payload
              /\ Payload[request.fields[f]] = last.args[f]

\* C5: when the caller supplies some check-info parameters, the check-info
\* of the modify request holds every other check-info field with the value
\* it has in the fetched record.
C5_CheckInfoKeepsUnsuppliedFields ==
    LET b == Builders[last.op]
        a == b.request.fields[b.check_info]
        model == b.request.nested[b.check_info].model
    IN  /\ IsUpdate /\ ModifyRequests # <<>>
        /\ SuppliedCheckInfoFields # {}
        /\ a \in DOMAIN FetchedRecord
        => /\ a \in DOMAIN Payload
           /\ Kept(model, DOMAIN model.fields \ SuppliedCheckInfoFields,
                   FetchedRecord[a], Payload[a])

\* C6: an update builder whose target id is not in the list it read raises
\* the not-found ValueError and sends no modify request; a modify request
\* is only sent after a list read whose answer held the id.
C6_AbsentTargetIsNotFound ==
    IsUpdate =>
        /\ ListWasRead /\ last.id \notin ListedIds =>
              /\ Raised
              /\ last.result.exc.type = "ValueError"
              /\ last.result.exc.message =
                    <<Builders[last.op].not_found, last.id, " not found">>
              /\ ModifyRequests = <<>>
        /\ \A i \in DOMAIN Sent :
              IsModify(Sent[i]) =>
                 /\ ListWasRead /\ last.id \in ListedIds
                 /\ \E j \in 1..(i-1) : IsListRead(Sent[j])

C6_Witness ==
    /\ IsUpdate /\ ListWasRead
    /\ ListedIds # {} /\ last.id \notin ListedIds
    /\ Raised /\ last.result.exc.type = "ValueError"

(***************************************************************************)
(* MonitorAPI: the create builders (monitor.py) and the Add<Type>Monitor-  *)
(* Request models (monitor_models.py).                                     *)
(***************************************************************************)
\* The eleven create builders, by monitor type: the request class and its
\* base, the sub-path of the endpoint, the response class, the field and
\* the class of the check-info; the signature (params, those without a
\* default in required besides monitor_id and facility_id, the defaults
\* that are not None); the keywords of the check-info (passed as <<field,
\* parameter>>, fixed); the keywords of the request (explicit: all of them,
\* given: the literals, kwargs_get: "kwargs.get(name, default)", described:
\* "description or f'...{parameter}'"), and the names kept out of the
\* **kwargs it passes on (filter).
Creators ==
    [ping |-> \* monitor.py 253-347
        [builder |-> "create_ping_monitor",
         base |-> "numeric",
         request |-> "AddPingMonitorRequest",
         kind |-> "ping",
         response |-> "PingMonitorResponse",
         check_info |-> "ping_check_info",
         check |-> "PingCheckInfoRequest",
         params |-> {"monitor_id", "facility_id", "description",
                     "run_interval", "run_count", "timeout", "thresholds",
                     "notify_ids", "owner_role_id"},
         required |-> {},
         defaults |-> [description |-> "", run_interval |-> "MIN_05",
                       run_count |-> 1, timeout |-> 5000, owner_role_id |->
                       "ADMINISTRATORS"],
         passed |-> {<<"run_count", "run_count">>, <<"timeout", "timeout">>},
         fixed |-> [run_interval |-> 1000],
         explicit |-> {"monitor_id", "facility_id", "description",
                       "run_interval", "owner_role_id",
                       "notify_relation_list", "numeric_value_info",
                       "ping_check_info", "item_name", "measure",
                       "application", "prediction_flg", "prediction_method",
                       "prediction_analysys_range", "prediction_target",
                       "prediction_application", "change_flg",
                       "change_analysys_range", "change_application"},
         given |-> [item_name |-> "Response Time", measure |-> "msec"],
         kwargs_get |-> [application |-> "Hinemos", prediction_flg |->
                         FALSE, prediction_method |-> "POLYNOMIAL_1",
                         prediction_analysys_range |-> 60, prediction_target
                         |-> 60, prediction_application |-> "TEST",
                         change_flg |-> FALSE, change_analysys_range |-> 60,
                         change_application |-> "TEST"],
         filter |-> {"application", "prediction_flg", "prediction_method",
                     "prediction_analysys_range", "prediction_target",
                     "prediction_application", "change_flg",
                     "change_analysys_range", "change_application"},
         described |-> <<>>],
     http_numeric |-> \* monitor.py 434-528
        [builder |-> "create_http_numeric_monitor",
         base |-> "numeric",
         request |-> "AddHttpNumericMonitorRequest",
         kind |-> "httpNumeric",
         response |-> "HttpNumericMonitorResponse",
         check_info |-> "http_check_info",
         check |-> "HttpCheckInfoRequest",
         params |-> {"monitor_id", "facility_id", "url", "description",
                     "run_interval", "timeout", "thresholds", "notify_ids",
                     "owner_role_id"},
         required |-> {"url"},
         defaults |-> [description |-> "", run_interval |-> "MIN_05",
                       timeout |-> 10000, owner_role_id |->
                       "ADMINISTRATORS"],
         passed |-> {<<"request_url", "url">>, <<"timeout", "timeout">>},
         fixed |-> <<>>,
         explicit |-> {"monitor_id", "facility_id", "description",
                       "run_interval", "owner_role_id",
                       "notify_relation_list", "numeric_value_info",
                       "http_check_info", "item_name", "measure",
                       "application", "prediction_flg", "prediction_method",
                       "prediction_analysys_range", "prediction_target",
                       "prediction_application", "change_flg",
                       "change_analysys_range", "change_application"},
         given |-> [item_name |-> "Response Time", measure |-> "msec"],
         kwargs_get |-> [application |-> "Hinemos", prediction_flg |->
                         FALSE, prediction_method |-> "POLYNOMIAL_1",
                         prediction_analysys_range |-> 60, prediction_target
                         |-> 60, prediction_application |-> "TEST",
                         change_flg |-> FALSE, change_analysys_range |-> 60,
                         change_application |-> "TEST"],
         filter |-> {"application", "prediction_flg", "prediction_method",
                     "prediction_analysys_range", "prediction_target",
                     "prediction_application", "change_flg",
                     "change_analysys_range", "change_application"},
         described |-> <<>>],
     http_string |-> \* monitor.py 604-691
        [builder |-> "create_http_string_monitor",
         base |-> "string",
         request |-> "AddHttpStringMonitorRequest",
         kind |-> "httpString",
         response |-> "HttpStringMonitorResponse",
         check_info |-> "http_check_info",
         check |-> "HttpCheckInfoRequest",
         params |-> {"monitor_id", "facility_id", "url", "patterns",
                     "description", "run_interval", "timeout", "notify_ids",
                     "owner_role_id"},
         required |-> {"url", "patterns"},
         defaults |-> [description |-> "", run_interval |-> "MIN_05",
                       timeout |-> 10000, owner_role_id |->
                       "ADMINISTRATORS"],
         passed |-> {<<"request_url", "url">>, <<"timeout", "timeout">>},
         fixed |-> <<>>,
         explicit |-> {"monitor_id", "facility_id", "description",
                       "run_interval", "owner_role_id",
                       "notify_relation_list", "string_value_info",
                       "http_check_info", "application"},
         given |-> <<>>,
         kwargs_get |-> [application |-> "Hinemos"],
         filter |-> {"application"},
         described |-> <<>>],
     snmp |-> \* monitor.py 794-888
        [builder |-> "create_snmp_monitor",
         base |-> "numeric",
         request |-> "AddSnmpNumericMonitorRequest",
         kind |-> "snmpNumeric",
         response |-> "SnmpNumericMonitorResponse",
         check_info |-> "snmp_check_info",
         check |-> "SnmpCheckInfoRequest",
         params |-> {"monitor_id", "facility_id", "oid", "description",
                     "run_interval", "convert_flg", "thresholds",
                     "notify_ids", "owner_role_id"},
         required |-> {"oid"},
         defaults |-> [description |-> "", run_interval |-> "MIN_05",
                       convert_flg |-> "NONE", owner_role_id |->
                       "ADMINISTRATORS"],
         passed |-> {<<"snmp_oid", "oid">>, <<"convert_flg",
                     "convert_flg">>},
         fixed |-> <<>>,
         explicit |-> {"monitor_id", "facility_id", "description",
                       "run_interval", "owner_role_id",
                       "notify_relation_list", "numeric_value_info",
                       "snmp_check_info", "item_name", "measure",
                       "application", "prediction_flg", "prediction_method",
                       "prediction_analysys_range", "prediction_target",
                       "prediction_application", "change_flg",
                       "change_analysys_range", "change_application"},
         given |-> [item_name |-> "SNMP Value"],
         kwargs_get |-> [measure |-> "count", application |-> "Hinemos",
                         prediction_flg |-> FALSE, prediction_method |->
                         "POLYNOMIAL_1", prediction_analysys_range |-> 60,
                         prediction_target |-> 60, prediction_application
                         |-> "TEST", change_flg |-> FALSE,
                         change_analysys_range |-> 60, change_application
                         |-> "TEST"],
         filter |-> {"application", "prediction_flg", "prediction_method",
                     "prediction_analysys_range", "prediction_target",
                     "prediction_application", "change_flg",
                     "change_analysys_range", "change_application"},
         described |-> <<>>],
     logfile |-> \* monitor.py 974-1049
        [builder |-> "create_logfile_monitor",
         base |-> "string",
         request |-> "AddLogfileMonitorRequest",
         kind |-> "logfile",
         response |-> "LogfileMonitorResponse",
         check_info |-> "logfile_check_info",
         check |-> "LogfileCheckInfoRequest",
         params |-> {"monitor_id", "facility_id", "directory", "filename",
                     "patterns", "description", "run_interval", "encoding",
                     "notify_ids", "owner_role_id"},
         required |-> {"directory", "filename", "patterns"},
         defaults |-> [description |-> "", run_interval |-> "MIN_05",
                       encoding |-> "UTF-8", owner_role_id |->
                       "ADMINISTRATORS"],
         passed |-> {<<"directory", "directory">>, <<"file_name",
                     "filename">>, <<"file_encoding", "encoding">>},
         fixed |-> <<>>,
         explicit |-> {"monitor_id", "facility_id", "description",
                       "run_interval", "owner_role_id",
                       "notify_relation_list", "string_value_info",
                       "logfile_check_info", "application"},
         given |-> <<>>,
         kwargs_get |-> [application |-> "Hinemos"],
         filter |-> {"application"},
         described |-> <<>>],
     sql |-> \* monitor.py 1147-1269
        [builder |-> "create_sql_monitor",
         base |-> "numeric",
         request |-> "AddSqlMonitorRequest",
         kind |-> "sqlNumeric",
         response |-> "SqlMonitorResponse",
         check_info |-> "sql_check_info",
         check |-> "SqlCheckInfoRequest",
         params |-> {"monitor_id", "facility_id", "connection_url", "user",
                     "password", "jdbc_driver", "sql", "description",
                     "application", "timeout", "run_interval",
                     "owner_role_id", "warning_threshold",
                     "critical_threshold"},
         required |-> {"connection_url", "user", "password", "jdbc_driver",
                       "sql"},
         defaults |-> [application |-> "Hinemos", timeout |-> 5000,
                       run_interval |-> "MIN_05", owner_role_id |->
                       "ADMINISTRATORS", warning_threshold |-> 80,
                       critical_threshold |-> 90],
         passed |-> {<<"connection_url", "connection_url">>, <<"user",
                     "user">>, <<"password", "password">>, <<"jdbc_driver",
                     "jdbc_driver">>, <<"query", "sql">>, <<"timeout",
                     "timeout">>},
         fixed |-> <<>>,
         explicit |-> {"monitor_id", "facility_id", "description",
                       "application", "run_interval", "owner_role_id",
                       "item_name", "measure", "sql_check_info",
                       "numeric_value_info"},
         given |-> [item_name |-> "", measure |-> ""],
         kwargs_get |-> <<>>,
         filter |-> {},
         described |-> <<"SQL monitor for ", "connection_url">>],
     jmx |-> \* monitor.py 1313-1432
        [builder |-> "create_jmx_monitor",
         base |-> "numeric",
         request |-> "AddJmxMonitorRequest",
         kind |-> "jmx",
         response |-> "JmxMonitorResponse",
         check_info |-> "jmx_check_info",
         check |-> "JmxCheckInfoRequest",
         params |-> {"monitor_id", "facility_id", "port", "description",
                     "application", "auth_user", "auth_password", "url",
                     "convert_flg", "run_interval", "owner_role_id",
                     "warning_threshold", "critical_threshold"},
         required |-> {"port"},
         defaults |-> [application |-> "Hinemos", convert_flg |-> "NONE",
                       run_interval |-> "MIN_05", owner_role_id |->
                       "ADMINISTRATORS", warning_threshold |-> 80,
                       critical_threshold |-> 90],
         passed |-> {<<"port", "port">>, <<"auth_user", "auth_user">>,
                     <<"auth_password", "auth_password">>, <<"url", "url">>,
                     <<"convert_flg", "convert_flg">>},
         fixed |-> <<>>,
         explicit |-> {"monitor_id", "facility_id", "description",
                       "application", "run_interval", "owner_role_id",
                       "item_name", "measure", "jmx_check_info",
                       "numeric_value_info"},
         given |-> [item_name |-> "$[JMX_HEAP_MEMORY_USAGE_COMMITTED]",
                    measure |-> "byte"],
         kwargs_get |-> <<>>,
         filter |-> {},
         described |-> <<"JMX monitor for port ", "port">>],
     process |-> \* monitor.py 1476-1586
        [builder |-> "create_process_monitor",
         base |-> "numeric",
         request |-> "AddProcessMonitorRequest",
         kind |-> "process",
         response |-> "ProcessMonitorResponse",
         check_info |-> "process_check_info",
         check |-> "ProcessCheckInfoRequest",
         params |-> {"monitor_id", "facility_id", "param", "description",
                     "application", "case_sensitivity_flg", "run_interval",
                     "owner_role_id", "min_count", "max_count"},
         required |-> {"param"},
         defaults |-> [application |-> "Hinemos", case_sensitivity_flg |->
                       TRUE, run_interval |-> "MIN_05", owner_role_id |->
                       "ADMINISTRATORS", min_count |-> 1, max_count |-> 10],
         passed |-> {<<"param", "param">>, <<"case_sensitivity_flg",
                     "case_sensitivity_flg">>},
         fixed |-> <<>>,
         explicit |-> {"monitor_id", "facility_id", "description",
                       "application", "run_interval", "owner_role_id",
                       "item_name", "measure", "process_check_info",
                       "numeric_value_info"},
         given |-> [item_name |-> "$[PROCESS_COUNT]", measure |-> "count"],
         kwargs_get |-> <<>>,
         filter |-> {},
         described |-> <<"Process monitor for ", "param">>],
     port |-> \* monitor.py 1630-1740
        [builder |-> "create_port_monitor",
         base |-> "numeric",
         request |-> "AddPortMonitorRequest",
         kind |-> "serviceport",
         response |-> "PortMonitorResponse",
         check_info |-> "port_check_info",
         check |-> "PortCheckInfoRequest",
         params |-> {"monitor_id", "facility_id", "port_no", "description",
                     "application", "service_id", "timeout", "run_interval",
                     "owner_role_id"},
         required |-> {"port_no"},
         defaults |-> [application |-> "Hinemos", timeout |-> 5000,
                       run_interval |-> "MIN_05", owner_role_id |->
                       "ADMINISTRATORS"],
         passed |-> {<<"port_no", "port_no">>, <<"service_id",
                     "service_id">>, <<"timeout", "timeout">>},
         fixed |-> <<>>,
         explicit |-> {"monitor_id", "facility_id", "description",
                       "application", "run_interval", "owner_role_id",
                       "item_name", "measure", "prediction_flg",
                       "port_check_info", "numeric_value_info"},
         given |-> [item_name |-> "", measure |-> "msec", prediction_flg |->
                    FALSE],
         kwargs_get |-> <<>>,
         filter |-> {},
         described |-> <<"Port monitor for port ", "port_no">>],
     winevent |-> \* monitor.py 1784-1885
        [builder |-> "create_winevent_monitor",
         base |-> "string",
         request |-> "AddWinEventMonitorRequest",
         kind |-> "winevent",
         response |-> "WinEventMonitorResponse",
         check_info |-> "winevent_check_info",
         check |-> "WinEventCheckInfoRequest",
         params |-> {"monitor_id", "facility_id", "log_name", "description",
                     "application", "source", "level", "keywords",
                     "run_interval", "owner_role_id", "error_patterns",
                     "warning_patterns"},
         required |-> {"log_name"},
         defaults |-> [application |-> "Hinemos", run_interval |-> "MIN_05",
                       owner_role_id |-> "ADMINISTRATORS"],
         passed |-> {<<"log_name", "log_name">>, <<"source", "source">>,
                     <<"level", "level">>, <<"keywords", "keywords">>},
         fixed |-> <<>>,
         explicit |-> {"monitor_id", "facility_id", "description",
                       "application", "run_interval", "owner_role_id",
                       "winevent_check_info", "string_value_info"},
         given |-> <<>>,
         kwargs_get |-> <<>>,
         filter |-> {},
         described |-> <<"Windows Event monitor for ", "log_name">>],
     custom |-> \* monitor.py 1929-2045
        [builder |-> "create_custom_monitor",
         base |-> "numeric",
         request |-> "AddCustomMonitorRequest",
         kind |-> "customNumeric",
         response |-> "CustomMonitorResponse",
         check_info |-> "custom_check_info",
         check |-> "CustomCheckInfoRequest",
         params |-> {"monitor_id", "facility_id", "command", "description",
                     "application", "timeout", "spec_flg", "convert_flg",
                     "run_interval", "owner_role_id", "warning_threshold",
                     "critical_threshold"},
         required |-> {"command"},
         defaults |-> [application |-> "Hinemos", timeout |-> 30000,
                       spec_flg |-> FALSE, convert_flg |-> "NONE",
                       run_interval |-> "MIN_05", owner_role_id |->
                       "ADMINISTRATORS", warning_threshold |-> 80,
                       critical_threshold |-> 90],
         passed |-> {<<"command", "command">>, <<"timeout", "timeout">>,
                     <<"spec_flg", "spec_flg">>, <<"convert_flg",
                     "convert_flg">>},
         fixed |-> <<>>,
         explicit |-> {"monitor_id", "facility_id", "description",
                       "application", "run_interval", "owner_role_id",
                       "item_name", "measure", "custom_check_info",
                       "numeric_value_info"},
         given |-> [item_name |-> "$[CUSTOM_COMMAND_RESULT]", measure |->
                    "value"],
         kwargs_get |-> <<>>,
         filter |-> {},
         described |-> <<"Custom monitor: ", "command">>]]

\* Add<Type>MonitorRequest by monitor type: AbstractMonitorRequest and
\* AbstractAddMonitorRequest, then AbstractAddNumericMonitorRequest or
\* AbstractAddStringMonitorRequest, then the required check-info of the
\* type (and priority_change_failure_type for HTTP string).
AddMonitorModels ==
    LET common ==
            AbstractModifyMonitorRequestFields
            @@ [monitor_id |-> "monitorId", owner_role_id |-> "ownerRoleId"]
        common_defaults ==
            [application |-> "Hinemos", monitor_flg |-> TRUE,
             run_interval |-> "MIN_05", notify_relation_list |-> <<>>,
             owner_role_id |-> "ADMINISTRATORS"]
        \* item_name and measure default to Japanese literals, written here
        \* by their code points.
        numeric_defaults ==
            [collector_flg |-> TRUE, item_name |-> "U+53D6 U+5F97 U+5024",
             measure |-> "U+53CE U+96C6 U+5024 U+5358 U+4F4D",
             prediction_flg |-> TRUE,
             prediction_method |-> "POLYNOMIAL_1",
             prediction_analysys_range |-> 60, prediction_target |-> 60,
             prediction_application |-> "Hinemos", change_flg |-> FALSE,
             change_analysys_range |-> 60, numeric_value_info |-> <<>>,
             failure_priority |-> "UNKNOWN",
             prediction_notify_relation_list |-> <<>>,
             change_notify_relation_list |-> <<>>]
        string_defaults ==
            [collector_flg |-> FALSE, string_value_info |-> <<>>,
             priority_change_judgment_type |-> "NOT_PRIORITY_CHANGE"]
    IN [t \in DOMAIN Creators |->
          LET c == Creators[t]
          IN IF c.base = "numeric"
             THEN ModelOf(
                    common @@ NumericMonitorFields
                    @@ [failure_priority |-> "failurePriority"]
                    @@ (c.check_info :> MonitorModels[c.response].fields[
                                            c.check_info]),
                    {"facility_id", "monitor_id", c.check_info},
                    common_defaults @@ numeric_defaults,
                    (c.check_info :> One(CheckInfoModels[c.check]))
                    @@ [notify_relation_list |->
                            Many(NotifyRelationInfoRequest),
                        numeric_value_info |->
                            Many(MonitorNumericValueInfoRequest),
                        prediction_notify_relation_list |->
                            Many(NotifyRelationInfoRequest),
                        change_notify_relation_list |->
                            Many(NotifyRelationInfoRequest)])
             ELSE ModelOf(
                    common @@ StringMonitorFields
                    @@ (c.check_info :> MonitorModels[c.response].fields[
                                            c.check_info])
                    @@ (IF t = "http_string"
                        THEN [priority_change_failure_type |->
                                "priorityChangeFailureType"]
                        ELSE <<>>),
                    {"facility_id", "monitor_id", c.check_info},
                    common_defaults @@ string_defaults
                    @@ (IF t = "http_string"
                        THEN [priority_change_failure_type |->
                                "NOT_PRIORITY_CHANGE"]
                        ELSE <<>>),
                    (c.check_info :> One(CheckInfoModels[c.check]))
                    @@ [notify_relation_list |->
                            Many(NotifyRelationInfoRequest),
                        string_value_info |->
                            Many(MonitorStringValueInfoRequest)])]

\* numeric_value_info of a numeric create builder: the caller's thresholds
\* ("if thresholds:", the builders that take them) as BASIC rules, else the
\* default entries.
numeric_value_info(t, args) ==
    LET thresholds == Get(args, "thresholds", <<>>)
        rows == default_thresholds(args)[t]
    IN IF t \in {"ping", "http_numeric", "snmp"} /\ thresholds # <<>>
       THEN [i \in DOMAIN thresholds |->
               validate(MonitorNumericValueInfoRequest,
                   [monitor_numeric_type |-> "BASIC",
                    priority |-> Get(thresholds[i], "priority", "WARNING"),
                    message |-> Get(thresholds[i], "message", "")]
                   @@ (IF "lower_limit" \in DOMAIN thresholds[i]
                       THEN [threshold_lower_limit |->
                                thresholds[i].lower_limit]
                       ELSE <<>>)
                   @@ (IF "upper_limit" \in DOMAIN thresholds[i]
                       THEN [threshold_upper_limit |->
                                thresholds[i].upper_limit]
                       ELSE <<>>)).value]
       ELSE [i \in DOMAIN rows |->
               validate(MonitorNumericValueInfoRequest,
                   [monitor_numeric_type |-> rows[i][1],
                    priority |-> rows[i][2],
                    threshold_lower_limit |-> rows[i][3],
                    threshold_upper_limit |-> rows[i][4]]
                   @@ (IF Len(rows[i]) = 5 THEN [message |-> rows[i][5]]
                       ELSE <<>>)).value]

StringValueInfoMutRepeatsOrder(t, args) ==
    LET n == Len(Get(args, "patterns", <<>>))
             + Len(Get(args, "error_patterns", <<>>))
             + Len(Get(args, "warning_patterns", <<>>))
    IN [value |-> [i \in 1..n |->
                     [order_no |-> 1, priority |-> "WARNING",
                      pattern |-> ".*", valid_flg |-> TRUE]]]

\* string_value_info of a string create builder, as [value |-> the rules]
\* or [exc |-> the error raised].  A pattern given as a Python str is
\* [str |-> the text]; a dict pattern is the function of its keys.
string_value_info(t, args) ==
    LET patterns == Get(args, "patterns", <<>>)
        is_str(pattern) == "str" \in DOMAIN pattern
        rule(kw) == validate(MonitorStringValueInfoRequest, kw).value
        simple(i) ==
            rule([order_no |-> i + 1, priority |-> "WARNING",
                  pattern |-> patterns[i + 1].str,
                  message |-> <<"Pattern '", patterns[i + 1].str,
                                "' matched">>,
                  description |-> <<"String pattern: ",
                                    patterns[i + 1].str>>,
                  case_sensitivity_flg |-> TRUE, process_type |-> TRUE,
                  valid_flg |-> TRUE])
        detailed(i) ==
            LET pattern == patterns[i + 1] IN
            rule([order_no |-> i + 1,
                  priority |-> Get(pattern, "priority", "WARNING"),
                  pattern |-> pattern.pattern,
                  message |-> Get(pattern, "message", ""),
                  description |-> Get(pattern, "description", ""),
                  case_sensitivity_flg |->
                      Get(pattern, "case_sensitive", TRUE),
                  process_type |-> Get(pattern, "process_type", TRUE),
                  valid_flg |-> Get(pattern, "valid", TRUE)])
        \* pattern.get on a str (create_logfile_monitor), pattern["pattern"]
        \* on a dict without the key
        bad(i) == IF is_str(patterns[i]) THEN t = "logfile"
                  ELSE "pattern" \notin DOMAIN patterns[i]
        error_patterns == Get(args, "error_patterns", <<>>)
        warning_patterns == Get(args, "warning_patterns", <<>>)
        event(order_no, priority, pattern, message, description) ==
            rule([order_no |-> order_no, priority |-> priority,
                  pattern |-> pattern, message |-> <<message, pattern>>,
                  description |-> <<description, pattern>>,
                  case_sensitivity_flg |-> FALSE, process_type |-> TRUE,
                  valid_flg |-> TRUE])
    IN
    IF t = "winevent"
    THEN [value |->
            [j \in DOMAIN error_patterns |->
                event(j, "CRITICAL", error_patterns[j],
                      "Critical event detected: ", "Error pattern: ")]
            \o [j \in DOMAIN warning_patterns |->
                event(Len(error_patterns) + j, "WARNING",
                      warning_patterns[j],
                      "Warning event detected: ", "Warning pattern: ")]
            \o (IF error_patterns = <<>> /\ warning_patterns = <<>>
                THEN <<rule([order_no |-> 1, priority |-> "INFO",
                             pattern |-> ".*",
                             message |-> "Windows Event logged",
                             description |->
                                 "Default pattern for all events",
                             case_sensitivity_flg |-> FALSE,
                             process_type |-> TRUE, valid_flg |-> TRUE])>>
                ELSE <<>>)]
    ELSE IF \E i \in DOMAIN patterns : bad(i)
    THEN LET first == CHOOSE i \in DOMAIN patterns :
                         bad(i) /\ \A j \in 1..(i - 1) : ~bad(j)
         IN [exc |-> [type |-> IF is_str(patterns[first])
                               THEN "AttributeError" ELSE "KeyError"]]
    ELSE [value |->
            [k \in DOMAIN patterns |->
                IF is_str(patterns[k]) THEN simple(k - 1)
                ELSE detailed(k - 1)]]

\* HinemosClient.add_<type>_monitor
add_monitor(tok, t, monitor, lresp, resp) ==
    client_call(tok,
                [name |-> "add_monitor", method |-> "POST",
                 endpoint |-> <<"", "monitorsetting", Creators[t].kind>>,
                 json |-> serialize(AddMonitorModels[t], monitor),
                 returns |-> "typed",
                 model |-> MonitorModels[Creators[t].response]],
                lresp, resp)

BindMutFillsRequired(t, args) ==
    [value |-> args @@ Creators[t].defaults
               @@ [name \in {"monitor_id", "facility_id"}
                             \cup Creators[t].required |->
                      IF name = "patterns" THEN <<>> ELSE ""]]

\* The call create_<type>_monitor(**args) binding args to the signature:
\* a parameter without a default and without an argument is a TypeError,
\* the other parameters without an argument take their default.
bind(t, args) ==
    IF ~(({"monitor_id", "facility_id"} \cup Creators[t].required)
            \subseteq DOMAIN args)
    THEN [exc |-> [type |-> "TypeError"]]
    ELSE [value |-> args @@ Creators[t].defaults]

\* MonitorAPI.create_<type>_monitor(**args): the binding of the arguments
\* to the signature, the check-info, the rules, the request, the call of
\* the client.
create_monitor(tok, t, args, lresp, resp) ==
    LET c == Creators[t]
        failed(type) ==
            [token |-> tok, sent |-> <<>>, exc |-> [type |-> type]]
        bound == bind(t, args).value
        kwargs == [k \in DOMAIN args \ c.params |-> args[k]]
        passed_on == [k \in DOMAIN kwargs \ c.filter |-> kwargs[k]]
        check_kw ==
            [f \in {p[1] : p \in {q \in c.passed : q[2] \in DOMAIN bound}}
                |-> bound[(CHOOSE p \in c.passed : p[1] = f)[2]]]
            @@ c.fixed
        notify_ids == Get(bound, "notify_ids", <<>>)
        description ==
            IF c.described = <<>> THEN bound.description
            ELSE IF Truthy(Get(bound, "description", None))
            THEN bound.description
            ELSE <<c.described[1], bound[c.described[2]]>>
        named ==
            [k \in (c.explicit \cap c.params \cap DOMAIN bound)
                   \ {"description"} |-> bound[k]]
        got == [k \in DOMAIN c.kwargs_get |-> Get(kwargs, k, c.kwargs_get[k])]
    IN
    IF "exc" \in DOMAIN bind(t, args)
    THEN failed("TypeError")
    ELSE With(validate(CheckInfoModels[c.check], check_kw),
         LAMBDA check_info :
            IF "exc" \in DOMAIN check_info
            THEN failed("ValidationError")
            ELSE With(IF c.base = "numeric"
                      THEN [value |-> [numeric_value_info |->
                                          numeric_value_info(t, bound)]]
                      ELSE With(string_value_info(t, bound),
                           LAMBDA rules :
                              IF "exc" \in DOMAIN rules THEN rules
                              ELSE [value |-> [string_value_info |->
                                                  rules.value]]),
         LAMBDA value_info :
            IF "exc" \in DOMAIN value_info
            THEN failed(value_info.exc.type)
            ELSE IF DOMAIN passed_on \cap c.explicit # {}
            THEN \* "got multiple values for keyword argument"
                 failed("TypeError")
            ELSE With(validate(AddMonitorModels[t],
                          named @@ [description |-> description]
                          @@ c.given @@ got @@ value_info.value
                          @@ (c.check_info :> check_info.value)
                          @@ (IF "notify_relation_list" \in c.explicit
                              THEN [notify_relation_list |->
                                      [i \in DOMAIN notify_ids |->
                                          [notify_id |-> notify_ids[i]]]]
                              ELSE <<>>)
                          @@ passed_on),
         LAMBDA monitor_request :
            IF "exc" \in DOMAIN monitor_request
            THEN failed("ValidationError")
            ELSE add_monitor(tok, t, monitor_request.value, lresp, resp))))

(***************************************************************************)
(* The adapter shells: the hinemos_create_monitor tool of the stdio server *)
(* (server.py), of the FastMCP server (fastmcp_server.py) and of the HTTP  *)
(* server (http_fastmcp_server.py).  Every invocation makes its own        *)
(* client.                                                                 *)
(***************************************************************************)
WithClientMutLeaksOnError(body) ==
    body @@ [client |-> IF "exc" \in DOMAIN body THEN "open" ELSE "closed"]

\* with HinemosClient(**config) as client: body.  __exit__ calls close()
\* and returns None, so what the body raised goes on to the caller.
with_client(body) == body @@ [client |-> "closed"]

\* RunIntervalEnum(value).  A value is written [str |-> s] or [int |-> n].
\* The lookup by value finds a member for its own name only (the members
\* are strings); _missing_ maps the seven second counts and returns None
\* otherwise, which makes the call raise ValueError.
RunIntervalEnumMutByIndex(value) ==
    LET names == {"NONE", "SEC_30", "MIN_01", "MIN_05", "MIN_10", "MIN_30",
                  "MIN_60"}
        value_map == (0 :> "NONE") @@ (1 :> "SEC_30") @@ (2 :> "MIN_01")
                     @@ (3 :> "MIN_05") @@ (4 :> "MIN_10")
                     @@ (5 :> "MIN_30") @@ (6 :> "MIN_60")
    IN IF "str" \in DOMAIN value /\ value.str \in names
       THEN [value |-> value.str]
       ELSE IF "int" \in DOMAIN value /\ value.int \in DOMAIN value_map
       THEN [value |-> value_map[value.int]]
       ELSE [exc |-> [type |-> "ValueError"]]

RunIntervalEnum(value) ==
    LET names == {"NONE", "SEC_30", "MIN_01", "MIN_05", "MIN_10", "MIN_30",
                  "MIN_60"}
        value_map == (0 :> "NONE") @@ (30 :> "SEC_30") @@ (60 :> "MIN_01")
                     @@ (300 :> "MIN_05") @@ (600 :> "MIN_10")
                     @@ (1800 :> "MIN_30") @@ (3600 :> "MIN_60")
    IN IF "str" \in DOMAIN value /\ value.str \in names
       THEN [value |-> value.str]
       ELSE IF "int" \in DOMAIN value /\ value.int \in DOMAIN value_map
       THEN [value |-> value_map[value.int]]
       ELSE [exc |-> [type |-> "ValueError"]]

\* RunIntervalEnum.to_seconds
to_seconds(self) ==
    LET value_map == [NONE |-> 0, SEC_30 |-> 30, MIN_01 |-> 60,
                      MIN_05 |-> 300, MIN_10 |-> 600, MIN_30 |-> 1800,
                      MIN_60 |-> 3600]
    IN Get(value_map, self, 300)

\* ConvertFlagEnum(value) for a string value.
ConvertFlagEnum(value) ==
    IF value \in {"NONE", "DELTA"}
    THEN [value |-> value] ELSE [exc |-> [type |-> "ValueError"]]

\* The call of the builder in the branch of each monitor type, the same in
\* the three shells: the parameters read as required, the defaults of the
\* optional ones, the ones copied as they are (None when not given), the
\* ones converted to ConvertFlagEnum, whether a default pattern list
\* stands in for patterns, and whether the HTTP shell has the branch.
tool_calls ==
    [ping |-> \* server.py 631, fastmcp_server.py 393
        [required |-> {},
         defaults |-> [run_count |-> 3, timeout |-> 5000],
         copied |-> {},
         enums |-> {},
         default_patterns |-> FALSE,
         http |-> TRUE],
     http_numeric |-> \* server.py 638, fastmcp_server.py 402
        [required |-> {"url"},
         defaults |-> [timeout |-> 10000],
         copied |-> {},
         enums |-> {},
         default_patterns |-> FALSE,
         http |-> FALSE],
     http_string |-> \* server.py 655, fastmcp_server.py 419
        [required |-> {"url"},
         defaults |-> [timeout |-> 10000],
         copied |-> {},
         enums |-> {},
         default_patterns |-> TRUE,
         http |-> FALSE],
     snmp |-> \* server.py 663, fastmcp_server.py 429
        [required |-> {"oid"},
         defaults |-> [convert_flg |-> "NONE"],
         copied |-> {},
         enums |-> {"convert_flg"},
         default_patterns |-> FALSE,
         http |-> FALSE],
     logfile |-> \* server.py 680, fastmcp_server.py 446
        [required |-> {"directory", "filename"},
         defaults |-> [encoding |-> "UTF-8"],
         copied |-> {},
         enums |-> {},
         default_patterns |-> TRUE,
         http |-> FALSE],
     sql |-> \* server.py 689, fastmcp_server.py 458
        [required |-> {"connection_url", "user", "password", "jdbc_driver",
                       "sql"},
         defaults |-> [timeout |-> 5000, warning_threshold |-> 80,
                       critical_threshold |-> 90],
         copied |-> {},
         enums |-> {},
         default_patterns |-> FALSE,
         http |-> FALSE],
     jmx |-> \* server.py 702, fastmcp_server.py 473
        [required |-> {"port"},
         defaults |-> [convert_flg |-> "NONE", warning_threshold |-> 80,
                       critical_threshold |-> 90],
         copied |-> {"auth_user", "auth_password", "url"},
         enums |-> {"convert_flg"},
         default_patterns |-> FALSE,
         http |-> FALSE],
     process |-> \* server.py 714, fastmcp_server.py 487
        [required |-> {"param"},
         defaults |-> [case_sensitivity_flg |-> TRUE, min_count |-> 1,
                       max_count |-> 10],
         copied |-> {},
         enums |-> {},
         default_patterns |-> FALSE,
         http |-> FALSE],
     port |-> \* server.py 723, fastmcp_server.py 498
        [required |-> {"port_no"},
         defaults |-> [timeout |-> 5000],
         copied |-> {"service_id"},
         enums |-> {},
         default_patterns |-> FALSE,
         http |-> TRUE],
     winevent |-> \* server.py 731, fastmcp_server.py 508
        [required |-> {"log_name"},
         defaults |-> <<>>,
         copied |-> {"source", "level", "keywords", "error_patterns",
                     "warning_patterns"},
         enums |-> {},
         default_patterns |-> FALSE,
         http |-> FALSE],
     custom |-> \* server.py 742, fastmcp_server.py 521
        [required |-> {"command"},
         defaults |-> [timeout |-> 30000, spec_flg |-> FALSE, convert_flg
                       |-> "NONE", warning_threshold |-> 80,
                       critical_threshold |-> 90],
         copied |-> {},
         enums |-> {"convert_flg"},
         default_patterns |-> FALSE,
         http |-> FALSE]]

valid_types == DOMAIN tool_calls

\* The branch of monitor type t from common_params to the result.  In the
\* stdio and HTTP shells a parameter is read as arguments[name] or
\* arguments.get(name, default); in the FastMCP shell it is a keyword of
\* the tool function, None when not given, read as "name or default" (the
\* optional parameters given are true values here).  The outcome has
\* returned (what is returned from inside the try block: [json |-> the
\* result] for its JSON text, [text |-> the error text]) or exc.
create_monitor_branch(shell, t, arguments, lresp, resp) ==
    LET call == tool_calls[t]
        nothing == [token |-> None, sent |-> <<>>]
        raised(type) == nothing @@ [exc |-> [type |-> type]]
        \* "not name": no value, or "" for the parameters that are
        \* strings (port and port_no are numbers, never 0 here)
        missing(name) ==
            IF shell = "fastmcp"
            THEN \/ name \notin DOMAIN arguments
                 \/ name \notin {"port", "port_no"} /\ arguments[name] = ""
            ELSE name \notin DOMAIN arguments
        run_interval ==
            RunIntervalEnum([str |-> Get(arguments, "run_interval", "MIN_05")])
        convert_flg == ConvertFlagEnum(Get(arguments, "convert_flg", "NONE"))
        patterns ==
            \* "if not patterns:" (the priority is PriorityEnum.CRITICAL in
            \* server.py and "CRITICAL" in fastmcp_server.py)
            IF Get(arguments, "patterns", <<>>) = <<>>
            THEN <<[pattern |-> ".*error.*", priority |-> "CRITICAL",
                    message |-> "Error pattern found"]>>
            ELSE arguments.patterns
        keywords ==
            [monitor_id |-> arguments.monitor_id,
             facility_id |-> arguments.facility_id,
             description |-> Get(arguments, "description", ""),
             run_interval |-> run_interval.value,
             prediction_flg |-> FALSE, change_flg |-> FALSE]
            @@ (IF "convert_flg" \in call.enums
                THEN [convert_flg |-> convert_flg.value] ELSE <<>>)
            @@ (IF call.default_patterns THEN [patterns |-> patterns]
                ELSE <<>>)
            @@ Pick(arguments, call.required \cup call.copied
                               \cup DOMAIN call.defaults)
            @@ call.defaults
    IN
    IF shell # "fastmcp"
       /\ ~({"monitor_id", "facility_id"} \subseteq DOMAIN arguments)
    THEN raised("KeyError")
    ELSE IF "exc" \in DOMAIN run_interval
    THEN raised("ValueError")
    ELSE IF shell = "http" /\ ~call.http
    THEN nothing @@ [returned |-> [text |->
            [prefix |-> <<"Error: ">>,
             message |-> <<"Monitor type '", t,
                           "' not yet implemented in HTTP transport">>]]]
    ELSE IF \E name \in call.required : missing(name)
    THEN IF shell = "stdio" THEN raised("KeyError")
         ELSE nothing @@ [returned |-> [text |->
                 [prefix |-> <<"Error: ">>,
                  message |-> <<call.required, " required">>]]]
    ELSE IF "convert_flg" \in call.enums /\ "exc" \in DOMAIN convert_flg
    THEN raised("ValueError")
    ELSE With(create_monitor(None, t, keywords, lresp, resp),
         LAMBDA monitor :
            IF "exc" \in DOMAIN monitor THEN monitor
            ELSE [token |-> monitor.token, sent |-> monitor.sent,
                  returned |->
                     [json |-> [status |-> "created",
                                monitor_id |-> monitor.value.monitor_id,
                                monitor_type |-> t,
                                description |->
                                   Get(monitor.value, "description",
                                       None)]]])

\* What "except Exception as e" of a shell returns for the outcome of its
\* try block.
caught(prefix, outcome) ==
    IF "exc" \in DOMAIN outcome
    THEN [token |-> outcome.token, sent |-> outcome.sent,
          client |-> outcome.client,
          returned |-> [text |-> [prefix |-> prefix, message |-> "str(e)",
                                  e |-> outcome.exc]]]
    ELSE outcome

\* server.py call_tool(name, arguments)
call_tool(name, arguments, lresp, resp) ==
    caught(<<"Error executing ", name, ": ">>,
        with_client(
            IF name # "hinemos_create_monitor"
            THEN [token |-> None, sent |-> <<>>,
                  exc |-> [type |-> "ValueError",
                           message |-> <<"Unknown tool: ", name>>]]
            ELSE IF "monitor_type" \notin DOMAIN arguments
            THEN [token |-> None, sent |-> <<>>,
                  exc |-> [type |-> "KeyError"]]
            ELSE IF arguments.monitor_type \notin valid_types
            THEN IF ~({"monitor_id", "facility_id"}
                        \subseteq DOMAIN arguments)
                 THEN [token |-> None, sent |-> <<>>,
                       exc |-> [type |-> "KeyError"]]
                 ELSE [token |-> None, sent |-> <<>>,
                       exc |-> [type |-> "ValueError",
                                message |-> <<"Unsupported monitor type: ",
                                              arguments.monitor_type>>]]
            ELSE create_monitor_branch("stdio", arguments.monitor_type,
                                       arguments, lresp, resp)))

\* fastmcp_server.py hinemos_create_monitor(monitor_type, monitor_id,
\* facility_id, ...)
hinemos_create_monitor(arguments, lresp, resp) ==
    caught(<<"Error: ">>,
        IF arguments.monitor_type \notin valid_types
        THEN [token |-> None, sent |-> <<>>, client |-> "none",
              returned |-> [text |->
                 [prefix |-> <<"Error: ">>,
                  message |-> <<"Invalid monitor_type '",
                                arguments.monitor_type, "'">>]]]
        ELSE with_client(
                create_monitor_branch("fastmcp", arguments.monitor_type,
                                      arguments, lresp, resp)))

\* http_fastmcp_server.py _call_create_monitor(parameters)
call_create_monitor(parameters, lresp, resp) ==
    caught(<<"Error: ">>,
        IF "monitor_type" \notin DOMAIN parameters
        THEN [token |-> None, sent |-> <<>>, client |-> "none",
              exc |-> [type |-> "KeyError"]]
        ELSE IF parameters.monitor_type \notin valid_types
        THEN [token |-> None, sent |-> <<>>, client |-> "none",
              returned |-> [text |->
                 [prefix |-> <<"Error: ">>,
                  message |-> <<"Invalid monitor_type '",
                                parameters.monitor_type, "'">>]]]
        ELSE with_client(
                create_monitor_branch("http", parameters.monitor_type,
                                      parameters, lresp, resp)))

\* http_fastmcp_server.py call_tool(tool_name, parameters), the route
\* POST /tools/{tool_name}: the HTTPException(404) raised inside the try
\* block is caught by its "except Exception".
http_call_tool(tool_name, parameters, lresp, resp) ==
    IF tool_name # "hinemos_create_monitor"
    THEN [token |-> None, sent |-> <<>>, client |-> "none",
          raised |-> [type |-> "HTTPException", status_code |-> 500,
                      detail |-> <<"Tool execution failed: ",
                                   [type |-> "HTTPException",
                                    status_code |-> 404]>>]]
    ELSE With(call_create_monitor(parameters, lresp, resp),
         LAMBDA result :
            [token |-> result.token, sent |-> result.sent,
             client |-> result.client,
             returned |-> [json |-> [tool |-> tool_name,
                                     status |-> "success",
                                     result |-> result.returned]]])

(***************************************************************************)
(* RepositoryAPI.create_node and update_node (repository.py).  An address   *)
(* string is the sequence of its groups and separators, so that             *)
(* `":" in ip_address` is a search of the sequence.                         *)
(***************************************************************************)
\* IpAddressVersion.IPV6 if ":" in ip_address else IpAddressVersion.IPV4
ip_version(ip_address) ==
    IF \E i \in DOMAIN ip_address : ip_address[i] = ":"
    THEN "IPV6" ELSE "IPV4"

create_node(tok, args, lresp, resp) ==
    LET AddNodeRequest == NodeInfo
        params == {"facility_id", "facility_name", "ip_address",
                   "owner_role_id", "description", "platform_family",
                   "snmp_community", "snmp_port", "snmp_version"}
        kwargs == Pick(args, DOMAIN args \ params)
        explicit == {"facility_id", "facility_name", "node_name",
                     "description", "owner_role_id", "platform_family",
                     "ip_address_v4", "ip_address_v6", "ip_address_version",
                     "snmp_community", "snmp_port", "snmp_version", "valid"}
        a == args @@ [owner_role_id |-> "ADMINISTRATORS",
                      snmp_community |-> "public", snmp_port |-> 161,
                      snmp_version |-> "TYPE_V2"]
    IN
    IF \/ ~({"facility_id", "facility_name", "ip_address"}
               \subseteq DOMAIN args)
       \/ DOMAIN kwargs \cap explicit # {}
    THEN [token |-> tok, sent |-> <<>>, exc |-> [type |-> "TypeError"]]
    ELSE
    With(validate(AddNodeRequest,
            [facility_id |-> a.facility_id,
             facility_name |-> a.facility_name,
             node_name |-> a.facility_name,
             owner_role_id |-> a.owner_role_id,
             ip_address_version |-> ip_version(a.ip_address),
             snmp_community |-> a.snmp_community,
             snmp_port |-> a.snmp_port,
             snmp_version |-> a.snmp_version,
             valid |-> TRUE]
            @@ (IF ip_version(a.ip_address) = "IPV4"
                THEN [ip_address_v4 |-> a.ip_address]
                ELSE [ip_address_v6 |-> a.ip_address])
            @@ Pick(a, {"description", "platform_family"})
            @@ kwargs),
         LAMBDA node_request :
            IF "exc" \in DOMAIN node_request
            THEN [token |-> tok, sent |-> <<>>, exc |-> node_request.exc]
            ELSE \* self.client.add_node(node_request), client.py 295-306
                 client_call(tok,
                     [name |-> "add_node", method |-> "POST",
                      endpoint |-> <<"", "repository", "node">>,
                      json |-> serialize(AddNodeRequest, node_request.value),
                      returns |-> "typed", model |-> NodeInfo],
                     lresp, resp))

\* current is the upstream's answer to the read of the node, resp its
\* answer to the modification.
update_node(tok, args, lresp, current, resp) ==
    LET ModifyNodeRequest ==
            ModelOf(Pick(NodeInfo.fields,
                         {"facility_name", "description", "valid",
                          "administrator", "node_name", "platform_family",
                          "sub_platform_family", "ip_address_v4",
                          "ip_address_v6", "ip_address_version",
                          "snmp_community", "snmp_port", "snmp_version"}),
                    {}, <<>>, <<>>)
        params == {"facility_id", "facility_name", "description",
                   "ip_address", "platform_family", "snmp_community"}
        kwargs == Pick(args, DOMAIN args \ params)
        \* `given or current_node.<field>`
        chosen_or(current_node, f) ==
            IF f \in DOMAIN args /\ Truthy(args[f]) THEN Pick(args, {f})
            ELSE Pick(current_node, {f})
        addressed(current_node) ==
            IF "ip_address" \notin DOMAIN args
            THEN Pick(current_node, {"ip_address_version", "ip_address_v4",
                                     "ip_address_v6"})
            ELSE [ip_address_version |-> ip_version(args.ip_address)]
                 @@ (IF ip_version(args.ip_address) = "IPV4"
                     THEN [ip_address_v4 |-> args.ip_address]
                     ELSE [ip_address_v6 |-> args.ip_address])
        update_data(current_node) ==
            kwargs
            @@ addressed(current_node)
            @@ Pick(args, {"description", "snmp_community"})
            @@ chosen_or(current_node, "facility_name")
            @@ chosen_or(current_node, "platform_family")
            @@ Pick(current_node, {"node_name"})
    IN
    IF "facility_id" \notin DOMAIN args
    THEN [token |-> tok, sent |-> <<>>, exc |-> [type |-> "TypeError"]]
    ELSE
    \* self.get_node(facility_id): client.get_node, client.py 251-267
    With(client_call(tok,
             [name |-> "get_node", method |-> "GET",
              endpoint |-> <<"", "repository", "node_withoutNodeConfigInfo",
                             args.facility_id>>,
              returns |-> "typed", model |-> NodeInfo],
             lresp, current),
         LAMBDA g :
            IF "exc" \in DOMAIN g THEN g
            ELSE
            With(validate(ModifyNodeRequest, update_data(g.value)),
                 LAMBDA modify_request :
                    \* self.client.modify_node, client.py 308-320
                    With(client_call(g.token,
                             [name |-> "modify_node", method |-> "PUT",
                              endpoint |-> <<"", "repository", "node",
                                             args.facility_id>>,
                              json |-> serialize(ModifyNodeRequest,
                                                 modify_request.value),
                              returns |-> "typed", model |-> NodeInfo],
                             lresp, resp),
                         LAMBDA m : [m EXCEPT !.sent = g.sent \o m.sent])))

(***************************************************************************)
(* SpecCreate: one operation of the high-level API, either a monitor       *)
(* builder or a node create/update called on a client (fresh, or after a   *)
(* login()), or the hinemos_create_monitor tool called through one of the  *)
(* three shells.                                                           *)
(***************************************************************************)
\* The type-specific arguments a caller may give, by monitor type.
TypeArguments ==
    [ping |-> [run_count |-> 5],
     http_numeric |-> [url |-> "http://host/"],
     http_string |->
        [url |-> "http://host/",
         patterns |-> <<[pattern |-> "ERROR"],
                        [pattern |-> "WARN", priority |-> "INFO",
                         message |-> "warned"]>>],
     snmp |-> [oid |-> "1.3.6.1.2.1.1.3.0", convert_flg |-> "DELTA"],
     logfile |->
        [directory |-> "/var/log", filename |-> "messages",
         patterns |-> <<[pattern |-> "panic", priority |-> "CRITICAL"]>>],
     sql |->
        [connection_url |-> "jdbc:postgresql://db/", user |-> "u",
         password |-> "p", jdbc_driver |-> "org.postgresql.Driver",
         sql |-> "SELECT 1", warning_threshold |-> 50],
     jmx |-> [port |-> 9999, auth_user |-> "jmx"],
     process |-> [param |-> "httpd", min_count |-> 2],
     port |-> [port_no |-> 22, service_id |-> "SSH"],
     winevent |->
        [log_name |-> "System", error_patterns |-> <<"disk">>,
         warning_patterns |-> <<"fan", "temperature">>],
     custom |-> [command |-> "echo 1", spec_flg |-> TRUE]]

\* The arguments of a builder call: some of those of the type, and
\* besides them thresholds, other pattern lists or keywords of the request.
BuilderArguments(t) ==
    LET variants ==
            {<<>>}
            \cup (IF t \in {"ping", "http_numeric", "snmp"}
                  THEN {[thresholds |-> <<>>],
                        [thresholds |->
                            <<[priority |-> "CRITICAL", lower_limit |-> 0,
                               upper_limit |-> 100, message |-> "slow"],
                              [upper_limit |-> 50]>>],
                        [measure |-> "sec"],
                        [notify_ids |-> <<"EVENT1", "MAIL1">>]}
                  ELSE IF t \in {"http_string", "logfile"}
                  THEN {[patterns |-> <<>>],
                        [patterns |-> <<[str |-> "ERROR"],
                                        [pattern |-> "WARN"],
                                        [str |-> "FATAL"]>>],
                        [patterns |-> <<[pattern |-> "a"],
                                        [priority |-> "INFO"]>>],
                        [patterns |-> <<[pattern |-> "a"], [pattern |-> "b"],
                                        [pattern |-> "c",
                                         valid |-> FALSE]>>]}
                  ELSE IF t = "winevent"
                  THEN {[error_patterns |-> <<>>, warning_patterns |-> <<>>],
                        [error_patterns |-> <<"disk", "raid">>],
                        [error_patterns |-> <<"disk", "raid">>,
                         warning_patterns |-> <<"fan">>],
                        [prediction_flg |-> FALSE]}
                  ELSE {[prediction_flg |-> FALSE, change_flg |-> FALSE],
                        [description |-> "given"]})
    IN {variant @@ selection
        @@ [monitor_id |-> "M1", facility_id |-> "NODE1"] :
           variant \in variants,
           selection \in Selections(TypeArguments[t])}

\* The arguments of a tool call: some of those of the type, with or without
\* a run interval, a description, required strings given as "", and with
\* or without the common ones.
ToolArguments(shell) ==
    LET blank(t) ==
            IF tool_calls[t].required \cap {"port", "port_no"} = {}
            THEN {[name \in tool_calls[t].required |-> ""]} ELSE {}
        variants(t) ==
            {<<>>, [run_interval |-> "MIN_10"], [run_interval |-> "HOURLY"],
             [description |-> "given"], [patterns |-> <<>>]}
            \cup blank(t)
    IN UNION {
        {[monitor_type |-> t] @@ variant @@ selection
         @@ [monitor_id |-> "M1", facility_id |-> "NODE1"] :
            variant \in variants(t),
            selection \in Selections(TypeArguments[t])} :
        t \in valid_types }
    \cup {[monitor_type |-> "disk", monitor_id |-> "M1",
           facility_id |-> "NODE1"]}
    \cup (IF shell = "fastmcp" THEN {}
          ELSE {[monitor_type |-> "ping", monitor_id |-> "M1"],
                [monitor_id |-> "M1", facility_id |-> "NODE1"]})

CreateResponses ==
    {Http(200, Obj([monitorId |-> "M1", description |-> "as created"])),
     Http(400, Obj([message |-> "rejected"])),
     NetErr}

\* A builder called by a caller of the library.
CreateMonitor ==
    /\ last.op \in {"init", "login"}
    /\ \E t \in DOMAIN Creators :
       \E args \in BuilderArguments(t) :
       \E lresp \in ToggleLoginChoices :
       \E resp \in CreateResponses :
       \E r \in {create_monitor(token, t, args, lresp, resp)} :
         /\ token' = r.token
         /\ wire' = wire \o LogAll(r.sent, lresp)
         /\ last' = [op |-> "create_monitor", type |-> t, args |-> args,
                     before |-> token, result |-> r]
    /\ nCalls' = nCalls + 1
    /\ UNCHANGED upstream

\* A tool called through a shell: the shell's client is its own, the token
\* of this one stays.  The FastMCP shell registers the tool function under
\* its name; the other two look the name up themselves.
CallTool(shell) ==
    /\ last.op = "init"
    /\ \E name \in IF shell = "fastmcp" THEN {"hinemos_create_monitor"}
                  ELSE {"hinemos_create_monitor", "hinemos_drop_monitor"} :
       \E arguments \in ToolArguments(shell) :
       \E lresp \in ToggleLoginResponses :
       \E resp \in CreateResponses :
       \E r \in {IF shell = "stdio"
                 THEN call_tool(name, arguments, lresp, resp)
                 ELSE IF shell = "fastmcp"
                 THEN hinemos_create_monitor(arguments, lresp, resp)
                 ELSE http_call_tool(name, arguments, lresp, resp)} :
         /\ wire' = wire \o LogAll(r.sent, lresp)
         /\ last' = [op |-> "call_tool", shell |-> shell, name |-> name,
                     arguments |-> arguments, before |-> None, result |-> r,
                     lresp |-> lresp, resp |-> resp]
    /\ nCalls' = nCalls + 1
    /\ UNCHANGED <<token, upstream>>

\* RepositoryAPI.create_scope(**kwargs): its parameters are facility_id,
\* facility_name, owner_role_id, description and icon_image.
create_scope(tok, kwargs, lresp, resp) ==
    LET ScopeInfo ==
            ModelOf([facility_id |-> "facilityId",
                     facility_name |-> "facilityName",
                     description |-> "description",
                     icon_image |-> "iconImage",
                     owner_role_id |-> "ownerRoleId"],
                    {"facility_id", "facility_name", "owner_role_id"},
                    <<>>, <<>>)
        AddScopeRequest ==
            ModelOf([parent_facility_id |-> "parentFacilityId",
                     scope_info |-> "scopeInfo"],
                    {"scope_info"}, <<>>, [scope_info |-> One(ScopeInfo)])
        params == {"facility_id", "facility_name", "owner_role_id",
                   "description", "icon_image"}
    IN
    IF \/ ~({"facility_id", "facility_name"} \subseteq DOMAIN kwargs)
       \/ ~(DOMAIN kwargs \subseteq params)
    THEN [token |-> tok, sent |-> <<>>, exc |-> [type |-> "TypeError"]]
    ELSE
    With(validate(AddScopeRequest,
            [scope_info |-> kwargs @@ [owner_role_id |-> "ADMINISTRATORS"]]),
         LAMBDA scope_request :
            IF "exc" \in DOMAIN scope_request
            THEN [token |-> tok, sent |-> <<>>, exc |-> scope_request.exc]
            ELSE \* self.client.add_scope(scope_request), client.py 332-343
                 client_call(tok,
                     [name |-> "add_scope", method |-> "POST",
                      endpoint |-> <<"", "repository", "scope">>,
                      json |-> serialize(AddScopeRequest, scope_request.value),
                      returns |-> "typed", model |-> ScopeInfo],
                     lresp, resp))

\* The tool hinemos_create_scope of a shell: server.py 769-794,
\* fastmcp_server.py 543-588, http_fastmcp_server.py 857-882 behind the
\* route POST /tools/{tool_name}.  An argument that is None is left out.
hinemos_create_scope(shell, arguments, lresp, resp) ==
    LET body ==
            IF shell # "fastmcp"
               /\ ~({"facility_id", "facility_name"} \subseteq DOMAIN arguments)
            THEN [token |-> None, sent |-> <<>>, exc |-> [type |-> "KeyError"]]
            ELSE
            With(create_scope(None,
                    Pick(arguments, {"facility_id", "facility_name",
                                     "icon_image"})
                    @@ [parent_facility_id |->
                            Get(arguments, "parent_facility_id", ""),
                        description |-> Get(arguments, "description", ""),
                        owner_role_id |->
                            Get(arguments, "owner_role_id", "ALL_USERS")],
                    lresp, resp),
                 LAMBDA scope :
                    IF "exc" \in DOMAIN scope THEN scope
                    ELSE [token |-> scope.token, sent |-> scope.sent,
                          returned |->
                            [json |->
                               [status |-> "created"]
                               @@ Pick(scope.value,
                                       {"facility_id", "facility_name",
                                        "description"})
                               @@ Pick(arguments, {"parent_facility_id"})]])
        result ==
            caught(IF shell = "stdio"
                   THEN <<"Error executing ", "hinemos_create_scope", ": ">>
                   ELSE <<"Error: ">>,
                   with_client(body))
    IN IF shell # "http" THEN result
       ELSE [token |-> result.token, sent |-> result.sent,
             client |-> result.client,
             returned |-> [json |-> [tool |-> "hinemos_create_scope",
                                     status |-> "success",
                                     result |-> result.returned]]]

\* The tool hinemos_create_scope called through a shell with a new facility
\* id and name, with or without a parent scope and a description.
CreateScope ==
    /\ last.op = "init"
    /\ \E shell \in {"stdio", "fastmcp", "http"} :
       \E parent \in {<<>>, [parent_facility_id |-> "PARENT1"]} :
       \E more \in {<<>>, [description |-> "a scope"],
                     [owner_role_id |-> "ADMINISTRATORS"]} :
       \E lresp \in ToggleLoginResponses :
       \E resp \in {Http(200, Obj([facilityId |-> "S1",
                                    facilityName |-> "scope 1",
                                    ownerRoleId |-> "ALL_USERS"])),
                     Http(400, Obj([message |-> "rejected"])),
                     NetErr} :
       \E arguments \in {[facility_id |-> "S1", facility_name |-> "scope 1"]
                          @@ parent @@ more} :
       \E r \in {hinemos_create_scope(shell, arguments, lresp, resp)} :
         /\ wire' = wire \o LogAll(r.sent, lresp)
         /\ last' = [op |-> "hinemos_create_scope", shell |-> shell,
                     arguments |-> arguments, before |-> None, result |-> r,
                     lresp |-> lresp, resp |-> resp]
    /\ nCalls' = nCalls + 1
    /\ UNCHANGED <<token, upstream>>

\* The valid address strings, by family: dotted quads, and IPv6 in full,
\* compressed and IPv4-mapped form.
Addresses ==
    [IPV4 |-> {<<"192", ".", "0", ".", "2", ".", "1">>,
               <<"10", ".", "0", ".", "0", ".", "254">>},
     IPV6 |-> {<<"2001", ":", "db8", ":", "0", ":", "0", ":", "0", ":", "0",
                 ":", "0", ":", "1">>,
               <<":", ":", "1">>,
               <<":", ":", "ffff", ":", "192", ".", "0", ".", "2", ".",
                 "1">>}]

\* The arguments of a node call beside the address: the optional parameters
\* and the extra keyword arguments, which may name an address field.
NodeExtras ==
    {<<>>,
     [description |-> "rack 3", platform_family |-> "LINUX"],
     [snmp_community |-> "private", administrator |-> "ops"],
     [ip_address_v6 |-> <<":", ":", "2">>],
     [ip_address_v4 |-> <<"10", ".", "0", ".", "0", ".", "9">>],
     [ip_address_version |-> "IPV6"]}

NodeAnswers ==
    {Http(200, Obj([facilityId |-> "N1", facilityName |-> "node1"])),
     Http(400, Obj([message |-> "rejected"])),
     NetErr}

\* repo_api.create_node(...)
CreateNode ==
    /\ last.op \in {"init", "login"}
    /\ \E family \in DOMAIN Addresses :
       \E ip_address \in Addresses[family] :
       \E extras \in NodeExtras :
       \E args \in {extras @@ [facility_id |-> "N1",
                               facility_name |-> "node1",
                               ip_address |-> ip_address],
                    extras @@ [facility_id |-> "N1",
                               facility_name |-> "node1"]} :
       \E lresp \in ToggleLoginChoices :
       \E resp \in NodeAnswers :
       \E r \in {create_node(token, args, lresp, resp)} :
         /\ token' = r.token
         /\ wire' = wire \o LogAll(r.sent, lresp)
         /\ last' = [op |-> "create_node", args |-> args,
                     before |-> token, result |-> r]
    /\ nCalls' = nCalls + 1
    /\ UNCHANGED upstream

\* repo_api.update_node(...), on a node the upstream holds with one address
\* or with both.
UpdateNode ==
    /\ last.op \in {"init", "login"}
    /\ \E family \in DOMAIN Addresses :
       \E ip_address \in Addresses[family] :
       \E extras \in NodeExtras :
       \E args \in {extras @@ [facility_id |-> "N1",
                               ip_address |-> ip_address],
                    extras @@ [facility_id |-> "N1",
                               facility_name |-> "renamed"]} :
       \E held \in {[ipAddressVersion |-> "IPV4",
                     ipAddressV4 |-> <<"10", ".", "0", ".", "0", ".", "5">>],
                    [ipAddressVersion |-> "IPV6",
                     ipAddressV6 |-> <<"fe80", ":", ":", "5">>],
                    [ipAddressVersion |-> "IPV4",
                     ipAddressV4 |-> <<"10", ".", "0", ".", "0", ".", "5">>,
                     ipAddressV6 |-> <<"fe80", ":", ":", "5">>]} :
       \E current \in {Http(200, Obj(held @@ [facilityId |-> "N1",
                                              facilityName |-> "node1",
                                              nodeName |-> "node1",
                                              platformFamily |-> "LINUX"])),
                       Http(404, Obj([message |-> "not found"]))} :
       \E lresp \in ToggleLoginChoices :
       \E resp \in NodeAnswers :
       \E r \in {update_node(token, args, lresp, current, resp)} :
         /\ token' = r.token
         /\ wire' = wire \o LogAll(r.sent, lresp)
         /\ last' = [op |-> "update_node", args |-> args,
                     current |-> current, before |-> token, result |-> r]
    /\ nCalls' = nCalls + 1
    /\ UNCHANGED upstream

NextCreate ==
    \/ LoginFirst
    \/ CreateMonitor
    \/ CallTool("stdio")
    \/ CallTool("fastmcp")
    \/ CallTool("http")
    \/ CreateNode
    \/ UpdateNode
    \/ CreateScope

SpecCreate == Init /\ [][NextCreate]_vars

(***************************************************************************)
(* Properties of SpecCreate.                                               *)
(***************************************************************************)
IsToolCall == last.op = "call_tool"
IsCreate == last.op = "create_monitor"

\* What the tool gave back to its caller.
Returned == last.result.returned
ReturnedJson == "returned" \in DOMAIN last.result /\ "json" \in DOMAIN Returned
ReturnedText == "returned" \in DOMAIN last.result /\ "text" \in DOMAIN Returned

\* The text the tool function itself returned (the HTTP route wraps it).
Inner ==
    IF last.shell = "http" THEN Returned.json.result ELSE Returned
CaughtError == "text" \in DOMAIN Inner /\ "e" \in DOMAIN Inner.text
EarlyReturn == "text" \in DOMAIN Inner /\ "e" \notin DOMAIN Inner.text

\* The invocation reached the with statement of its shell: the stdio shell
\* opens it before anything else, the other two after the check of the
\* tool name (HTTP) and of monitor_type.
ScopeEntered ==
    /\ IsToolCall
    /\ \/ last.shell = "stdio"
       \/ /\ last.name = "hinemos_create_monitor"
          /\ "monitor_type" \in DOMAIN last.arguments
          /\ last.arguments.monitor_type \in valid_types

\* C11: a client used as a scoped resource is closed when the scope is
\* left, however it is left: every tool invocation that made a client
\* leaves it closed (normal completion, early return of an error text, an
\* exception raised inside the scope), and no invocation leaves one open.
C11_ClosedOnEveryExit ==
    IsToolCall =>
        /\ last.result.client \in {"closed", "none"}
        /\ ScopeEntered => last.result.client = "closed"

\* An operation inside the scope raised (the upstream rejected the create
\* request), and the client is closed.
C11_Witness ==
    /\ ScopeEntered
    /\ "returned" \in DOMAIN last.result
    /\ CaughtError
    /\ Inner.text.e.type = "HinemosAPIError"
    /\ Len(last.result.sent) = 2
    /\ last.result.client = "closed"

\* The create operation lacks a type-specific parameter it requires: the
\* builder one of its signature, the tool one its branch reads as required.
BuilderLacksRequired ==
    /\ IsCreate
    /\ ~(Creators[last.type].required \subseteq DOMAIN last.args)

ToolLacksRequired ==
    /\ IsToolCall
    /\ last.name = "hinemos_create_monitor"
    /\ {"monitor_type", "monitor_id", "facility_id"}
          \subseteq DOMAIN last.arguments
    /\ last.arguments.monitor_type \in valid_types
    /\ ~(tool_calls[last.arguments.monitor_type].required
            \subseteq DOMAIN last.arguments)

\* C12: a create operation whose required type-specific parameter is
\* absent ends in a local error (the builder raises, the tool returns an
\* error text) and sends nothing upstream, neither a login nor a create
\* request.
C12_MissingRequiredSendsNothing ==
    /\ BuilderLacksRequired =>
          /\ Raised
          /\ last.result.exc.type \in {"TypeError", "ValidationError"}
          /\ last.result.sent = <<>>
          /\ token = last.before
    /\ ToolLacksRequired =>
          /\ "returned" \in DOMAIN last.result
          /\ "text" \in DOMAIN Inner
          /\ last.result.sent = <<>>
    /\ (BuilderLacksRequired \/ ToolLacksRequired) =>
          \A i \in DOMAIN wire : wire[i].kind # "api"

\* An HTTP numeric monitor created without url on a client holding no
\* token: the builder raised and nothing was sent.
C12_Witness ==
    /\ BuilderLacksRequired
    /\ last.type = "http_numeric"
    /\ "url" \notin DOMAIN last.args
    /\ last.before = None
    /\ Raised
    /\ wire = <<>>

\* The create requests the operation sent, and the payload of the first.
IsAdd(req) == req.kind = "api" /\ req.method = "POST"
CreateRequests == SelectSeq(Sent, IsAdd)
CreatePayload == CreateRequests[1].json

\* The type of the monitor the operation is to create.
CreatedType ==
    IF IsCreate THEN last.type ELSE last.arguments.monitor_type
NumericTypes == {t \in DOMAIN Creators : Creators[t].base = "numeric"}
StringTypes == {t \in DOMAIN Creators : Creators[t].base = "string"}

SentNumericCreate ==
    /\ IsCreate \/ IsToolCall
    /\ CreateRequests # <<>>
    /\ CreatedType \in NumericTypes

NoThresholdsGiven ==
    IsCreate => Get(last.args, "thresholds", <<>>) = <<>>

\* The classification and priority of a threshold rule of a payload (the
\* wire tag of BASIC is "" or "BASIC").
Classified(rule) ==
    <<IF rule.monitorNumericType \in {"", "BASIC"} THEN "BASIC"
      ELSE rule.monitorNumericType,
      rule.priority>>

\* The pairs of classification and priority that occur more than once in a
\* threshold list written with the wire names.
Repeated(rules) ==
    {Classified(rules[i]) : i \in {i \in DOMAIN rules :
        \E j \in DOMAIN rules :
            j # i /\ Classified(rules[j]) = Classified(rules[i])}}

\* The last call was a numeric update builder with a threshold parameter-free
\* signature (ping, HTTP numeric, SNMP) that submitted its modify request for
\* a monitor whose stored threshold list repeats no pair.
NumericUpdateSubmitted ==
    /\ last.op \in {"update_ping_monitor", "update_http_numeric_monitor",
                    "update_snmp_monitor"}
    /\ ListWasRead
    /\ ModifyRequests # <<>>
    /\ \E i \in DOMAIN last.rresp.body.items :
         LET stored == last.rresp.body.items[i].obj IN
         /\ stored.monitorId = last.id
         /\ \A k \in 1..(i-1) : last.rresp.body.items[k].obj.monitorId # last.id
         /\ "numericValueInfo" \in DOMAIN stored
         /\ \A k \in DOMAIN stored.numericValueInfo :
                "monitorNumericType" \in DOMAIN stored.numericValueInfo[k]
         /\ Repeated(stored.numericValueInfo) = {}

\* C25: the modify request a numeric update builder (ping, HTTP numeric,
\* SNMP) submits for a monitor whose stored threshold list has at most one
\* rule for each pair of classification and priority, such as a monitor
\* created with the default table, has at most one rule for each pair.
C25_UpdateKeepsPairsDistinct ==
    NumericUpdateSubmitted => Repeated(Payload.numericValueInfo) = {}

BatchToggles ==
    {"enable_monitors", "disable_monitors", "enable_collectors",
     "disable_collectors"}

\* C14: a batch toggle (enable_monitors, disable_monitors,
\* enable_collectors, disable_collectors) called with an empty id list
\* returns without sending any request - no login, no read, no toggle - and
\* leaves the client's token unchanged.
C14_EmptyListIsLocalNoOp ==
    [][(last'.op \in BatchToggles /\ last'.ids = <<>>) =>
          /\ last'.result.sent = <<>>
          /\ "exc" \notin DOMAIN last'.result
          /\ wire' = wire
          /\ token' = token]_vars

\* disable_monitors with an empty list on a client that has no token yet (a
\* request would have logged in first).
C14_Witness ==
    /\ last.op = "disable_monitors"
    /\ last.ids = <<>>
    /\ last.before = None
    /\ token = None
    /\ wire = <<>>

\* The read-by-id requests of the last call and the ids they read.
IsRead(req) ==
    /\ req.kind = "api"
    /\ req.method = "GET"
    /\ req.url[Len(req.url) - 1] = "monitor"
ReadRequests == SelectSeq(Sent, IsRead)
ReadIds == [i \in DOMAIN ReadRequests |->
               ReadRequests[i].url[Len(ReadRequests[i].url)]]
IsLogin(req) == req.kind = "login"

\* The read of id fails: the upstream answers it with a status error or
\* not at all.
ReadFails(id) ==
    upstream[id].kind = "neterr" \/ ~is_success(upstream[id].status)

\* The call held a token when it read (cached before, or obtained by the
\* login of the first read).
Inspecting ==
    /\ last.op = "disable_collectors"
    /\ last.ids # <<>>
HeldToken == Inspecting /\ last.result.token # None

\* C15: in disable_collectors a monitor whose read-by-id fails is included
\* in the id list of the toggle call, the failure of a read is not raised
\* to the caller, and the ids after it are still inspected.
C15_ReadFailureIncludesAndContinues ==
    Inspecting =>
        \* every id is inspected, in order, whatever the earlier reads did;
        \* without a token every inspection (and the toggle) tries to log in
        /\ IF HeldToken THEN ReadIds = last.ids
           ELSE /\ ReadRequests = <<>>
                /\ Len(SelectSeq(Sent, IsLogin)) = Len(last.ids) + 1
        \* the toggle is called once, after the reads, with the failed ids
        /\ HeldToken =>
              /\ Len(ToggleRequests) = 1
              /\ IsToggle(Sent[Len(Sent)])
              /\ \A i \in DOMAIN last.ids :
                    ReadFails(last.ids[i]) =>
                       \E j \in DOMAIN ToggleRequests[1].json.monitorIds :
                          ToggleRequests[1].json.monitorIds[j] = last.ids[i]
        \* what the caller sees is the outcome of the toggle (the last
        \* request), never the status error of a read
        /\ "exc" \in DOMAIN last.result =>
              \/ ~HeldToken
              \/ Get(last.result.exc, "status_code", 400) = 400

\* The first read fails (not found), the second does not answer, the third
\* succeeds; the toggle lists all three and the call returns normally.
C15_Witness ==
    /\ HeldToken
    /\ last.ids = <<"M1", "M2", "M3">>
    /\ upstream["M1"].kind = "http" /\ upstream["M1"].status = 404
    /\ upstream["M2"].kind = "neterr"
    /\ upstream["M3"].kind = "http" /\ upstream["M3"].status = 200
    /\ ReadIds = last.ids
    /\ ToggleRequests[1].json.monitorIds = last.ids
    /\ "exc" \notin DOMAIN last.result

\* C16: in every create payload sent for a numeric monitor, each threshold
\* rule whose classification is BASIC carries monitorNumericType "" and
\* never the literal token "BASIC", also when the rule is written as part
\* of the enclosing monitor request.
C16_BasicIsEmptyStringOnTheWire ==
    SentNumericCreate =>
        \A i \in DOMAIN CreateRequests :
            LET table == CreateRequests[i].json.numericValueInfo IN
            \A j \in DOMAIN table :
                /\ table[j].monitorNumericType # "BASIC"
                /\ Classified(table[j])[1] = "BASIC" =>
                      table[j].monitorNumericType = ""

\* The request a node call submitted (the POST of create_node, the PUT of
\* update_node) and the address the caller gave.
IsNodeCall == last.op \in {"create_node", "update_node"}
IsNodeWrite(req) == req.kind = "api" /\ req.method \in {"POST", "PUT"}
NodeWrites == SelectSeq(Sent, IsNodeWrite)
SubmittedWithAddress ==
    /\ IsNodeCall
    /\ "ip_address" \in DOMAIN last.args
    /\ NodeWrites # <<>>
AddressFields == {"ip_address_v4", "ip_address_v6", "ip_address_version"}

\* The payload p carries the address in the field of its family, the
\* version of that family, and no other address field.
OneAddressOf(p, ip_address) ==
    LET family == CHOOSE f \in DOMAIN Addresses : ip_address \in Addresses[f]
    IN
    /\ p.ipAddressVersion = family
    /\ IF family = "IPV4"
       THEN p.ipAddressV4 = ip_address /\ "ipAddressV6" \notin DOMAIN p
       ELSE p.ipAddressV6 = ip_address /\ "ipAddressV4" \notin DOMAIN p

\* Calls that pass no address field among the extra keyword arguments
\* submit one request, with the address in the field of its family only.
OneAddressFieldUnlessOverridden ==
    (SubmittedWithAddress /\ DOMAIN last.args \cap AddressFields = {}) =>
        /\ Len(NodeWrites) = 1
        /\ OneAddressOf(NodeWrites[1].json, last.args.ip_address)

\* C17: for every valid IPv4 or IPv6 address string, the request submitted
\* by create_node, and by update_node when a new ip_address is given, has
\* exactly one of the two address fields populated, the one matching
\* ip_address_version, and the other absent from the payload.
C17_ExactlyOneAddressField ==
    SubmittedWithAddress =>
        OneAddressOf(NodeWrites[1].json, last.args.ip_address)

\* The rules of a payload are numbered 1, 2, ..., n in list order.
NumberedFromOne(rules) ==
    \A i \in DOMAIN rules : rules[i].orderNo = i

SentStringCreate ==
    /\ IsCreate \/ IsToolCall
    /\ CreateRequests # <<>>
    /\ CreatedType \in StringTypes

SentPatternUpdate ==
    /\ IsUpdate
    /\ "patterns" \in DOMAIN last.args
    /\ ModifyRequests # <<>>

\* The number of patterns the caller of a string create builder supplied
\* (the Windows-event builder adds one catch-all rule when there is none).
Supplied ==
    IF last.type = "winevent"
    THEN IF Len(Get(last.args, "error_patterns", <<>>))
            + Len(Get(last.args, "warning_patterns", <<>>)) = 0
         THEN 1
         ELSE Len(Get(last.args, "error_patterns", <<>>))
              + Len(Get(last.args, "warning_patterns", <<>>))
    ELSE Len(Get(last.args, "patterns", <<>>))

C19_JsonOrErrorTextNeverRaises ==
    IsToolCall =>
        /\ "raised" \notin DOMAIN last.result
        /\ "returned" \in DOMAIN last.result
        /\ \/ "json" \in DOMAIN Returned
           \/ Returned.text.prefix = <<"Error: ">>

\* hinemos_create_monitor called with a monitor type of the eleven, the
\* common and the type's required parameters (none blank) and valid values
\* of the enumerated ones, against an upstream that accepts the login and
\* the create request.
WellFormedCreate ==
    /\ IsToolCall
    /\ last.name = "hinemos_create_monitor"
    /\ {"monitor_type", "monitor_id", "facility_id"}
          \subseteq DOMAIN last.arguments
    /\ last.arguments.monitor_type \in valid_types
    /\ \A name \in tool_calls[last.arguments.monitor_type].required :
          /\ name \in DOMAIN last.arguments
          /\ name \notin {"port", "port_no"} => last.arguments[name] # ""
    /\ "exc" \notin DOMAIN
          RunIntervalEnum([str |-> Get(last.arguments, "run_interval", "MIN_05")])
    /\ last.lresp.kind = "http" /\ is_success(last.lresp.status)
    /\ last.resp.kind = "http" /\ is_success(last.resp.status)

\* C20: through each of the three shells, hinemos_create_monitor called with
\* any of the eleven monitor types and that type's required parameters
\* results in exactly one create request for that monitor type being sent
\* upstream, and the adapter returns the created monitor as JSON.
C20_EveryTypeCreatesThroughEveryShell ==
    WellFormedCreate =>
        /\ Len(CreateRequests) = 1
        /\ CreateRequests[1].url[Len(CreateRequests[1].url)]
              = Creators[last.arguments.monitor_type].kind
        /\ "returned" \in DOMAIN last.result
        /\ "json" \in DOMAIN Inner
        /\ Inner.json.monitor_id = last.resp.body.obj.monitorId

\* The positions in the requests of the last call of its reads by id and
\* of its toggle requests.
ReadPositions == {i \in DOMAIN Sent : IsRead(Sent[i])}
TogglePositions == {i \in DOMAIN Sent : IsToggle(Sent[i])}

\* s lists elements of t in the order t lists them.
KeepsOrderOf(s, t) ==
    \E f \in [DOMAIN s -> DOMAIN t] :
        /\ \A i \in DOMAIN s : t[f[i]] = s[i]
        /\ \A i, j \in DOMAIN s : i < j => f[i] < f[j]

AllPredictionEnabled ==
    /\ HeldToken
    /\ \A i \in DOMAIN last.ids : PredictionEnabled(last.ids[i])

\* C29: disable_collectors never sends a toggle request with an empty id
\* list: when every listed monitor is excluded because prediction is
\* enabled, the N reads are issued and no toggle request follows.
C29_NoToggleWhenAllExcluded ==
    /\ Inspecting =>
          \A i \in DOMAIN ToggleRequests :
              ToggleRequests[i].json.monitorIds # <<>>
    /\ AllPredictionEnabled =>
          /\ ReadIds = last.ids
          /\ ToggleRequests = <<>>

\* The last call sent a login request and the upstream answered it with a
\* non-2xx status or not at all.
LoginFailed ==
    /\ SentLogin
    /\ last.lresp.kind = "neterr" \/ ~is_success(last.lresp.status)

\* The call that met the failed login raised without sending a request of
\* its own and left the client without a token; the next call on the
\* client starts with a login request.
FailedLoginIsRetried ==
    /\ [](LoginFailed =>
            /\ Raised
            /\ \A i \in DOMAIN last.result.sent :
                  last.result.sent[i].kind = "login"
            /\ token = None)
    /\ [][(LoginFailed /\ nCalls' = nCalls + 1) =>
            /\ last'.result.sent # <<>>
            /\ last'.result.sent[1].kind = "login"]_vars

\* C26: if the login request fails (non-2xx response or network failure),
\* the operation that triggered it raises the structured error without
\* sending its own request, the client still holds no token afterwards, and
\* the next operation on the same client attempts login again before
\* sending anything else.
C26_FailedLoginRaisesAndIsRetried ==
    /\ [](LoginFailed =>
            /\ Raised
            /\ last.result.exc.type = "HinemosAPIError"
            /\ \A i \in DOMAIN last.result.sent :
                  last.result.sent[i].kind = "login"
            /\ token = None)
    /\ [][(LoginFailed /\ nCalls' = nCalls + 1) =>
            /\ last'.result.sent # <<>>
            /\ last'.result.sent[1].kind = "login"]_vars

(***************************************************************************)
(* SpecFunctions: the conversions of the package (threshold converter,     *)
(* RunIntervalEnum, DTO round trip, URL routing) applied once to an input  *)
(* drawn from a bounded set; `last` holds the input and the output.        *)
(***************************************************************************)
\* Bound on the length of the threshold list given to the converter.
MaxRules == 2

\* Threshold rules as parsed from a monitor record
\* (MonitorNumericValueInfoResponse): each limit and the message may be None.
ResponseRules ==
    {[priority |-> priority] @@ lower @@ upper @@ message :
        priority \in {"INFO", "CRITICAL"},
        lower \in {<<>>} \cup {[threshold_lower_limit |-> n] :
                                  n \in {-1, 0, 2000}},
        upper \in {<<>>} \cup {[threshold_upper_limit |-> n] : n \in {0, 1}},
        message \in {<<>>, [message |-> "as set"]}}

\* MonitorAPI._convert_numeric_value_response_to_request(response_list)
ConvertThresholds ==
    /\ last.op = "init"
    /\ \E n \in 0..MaxRules :
       \E response_list \in [1..n -> ResponseRules] :
         last' = [op |-> "convert_numeric_value_response_to_request",
                  input |-> response_list,
                  output |->
                     convert_numeric_value_response_to_request(response_list)]
    /\ UNCHANGED <<token, wire, nCalls, upstream>>

\* RunIntervalEnum(value), and to_seconds() of the member it gives.
RunInterval ==
    /\ last.op = "init"
    /\ \E value \in {[str |-> s] : s \in {"NONE", "SEC_30", "MIN_01", "MIN_05",
                        "MIN_10", "MIN_30", "MIN_60", "", "300", "min_05",
                        "MIN_5", "SEC_60", "MIN_15"}}
                  \cup {[int |-> n] : n \in {0, 30, 60, 300, 600, 1800, 3600,
                        -30, 1, 2, 3, 5, 6, 10, 15, 299, 301, 900, 7200}} :
       \E r \in {RunIntervalEnum(value)} :
         last' = [op |-> "RunIntervalEnum", value |-> value, result |-> r]
                 @@ (IF "value" \in DOMAIN r
                     THEN [seconds |-> to_seconds(r.value)] ELSE <<>>)
    /\ UNCHANGED <<token, wire, nCalls, upstream>>

\* MonitorNumericValueInfoRequest.model_dump(by_alias=True,
\* exclude_none=True) called on the rule itself: the serializer's output
\* with BASIC replaced by the empty string.
model_dump(self) ==
    LET data == serialize(MonitorNumericValueInfoRequest, self) IN
    IF "monitorNumericType" \in DOMAIN data
       /\ data.monitorNumericType = "BASIC"
    THEN [monitorNumericType |-> ""] @@ data
    ELSE data

\* dto.model_dump(by_alias=True, exclude_none=True) of a request DTO value,
\* then type(dto)(**data).  The DTO types: the numeric threshold rule (enum
\* fields monitor_numeric_type and priority), GetNodeListRequest
\* (node_config_filter_is_and defaults to True) and AddNodeRequest.
RoundTrip ==
    /\ last.op = "init"
    /\ LET GetNodeListRequest ==
              ModelOf([parent_facility_id |-> "parentFacilityId",
                       node_config_filter_is_and |-> "nodeConfigFilterIsAnd",
                       node_config_target_datetime |->
                           "nodeConfigTargetDatetime"],
                      {}, [node_config_filter_is_and |-> TRUE], <<>>)
           MonitorNumericTypeEnum == {"BASIC", "PREDICTION", "CHANGE"}
           PriorityEnum == {"CRITICAL", "UNKNOWN", "WARNING", "INFO", "NONE"}
           rule(data) ==
              IF \/ /\ "monitorNumericType" \in DOMAIN data
                    /\ data.monitorNumericType \notin MonitorNumericTypeEnum
                 \/ /\ "priority" \in DOMAIN data
                    /\ data.priority \notin PriorityEnum
              THEN [exc |-> [type |-> "ValidationError"]]
              ELSE validate(MonitorNumericValueInfoRequest, data)
           values ==
              {[type |-> "MonitorNumericValueInfoRequest", value |-> tag @@ r] :
                  tag \in {<<>>} \cup {[monitor_numeric_type |-> t] :
                                          t \in MonitorNumericTypeEnum},
                  r \in ResponseRules}
              \cup
              {[type |-> "GetNodeListRequest", value |-> parent @@ is_and] :
                  parent \in {<<>>, [parent_facility_id |-> "SCOPE1"]},
                  is_and \in {<<>>} \cup {[node_config_filter_is_and |-> b] :
                                             b \in BOOLEAN}}
              \cup
              {[type |-> "AddNodeRequest",
                value |-> [facility_id |-> "NODE1", facility_name |-> "node 1"]
                          @@ extra] :
                  extra \in {<<>>, [ip_address_version |-> "IPV4"],
                             [owner_role_id |-> "ALL_USERS", snmp_port |-> 161]}}
       IN \E v \in values :
          \E data \in {CASE v.type = "MonitorNumericValueInfoRequest" ->
                            model_dump(v.value)
                        [] v.type = "GetNodeListRequest" ->
                            serialize(GetNodeListRequest, v.value)
                        [] OTHER -> serialize(NodeInfo, v.value)} :
            last' = [op |-> "round_trip", type |-> v.type, value |-> v.value,
                     data |-> data,
                     parsed |->
                        CASE v.type = "MonitorNumericValueInfoRequest" ->
                                rule(data)
                          [] v.type = "GetNodeListRequest" ->
                                validate(GetNodeListRequest, data)
                          [] OTHER -> validate(NodeInfo, data)]
    /\ UNCHANGED <<token, wire, nCalls, upstream>>

\* A call of _make_request with a logical endpoint of plain path segments:
\* the three routed first segments, with no, one or two leading slashes, a
\* routed name with nothing after it, and names that only resemble one.
MakeRequest ==
    /\ last.op \in {"init", "login"}
    /\ \E method \in {"GET", "POST"} :
       \E slashes \in {<<>>, <<"">>, <<"", "">>} :
       \E first \in {"repository", "monitorsetting", "monitorresult",
                      "access", "repositories", "Repository", "monitor"} :
       \E rest \in {<<>>, <<"node">>, <<"monitor", "M1">>,
                     <<"repository", "node">>} :
       \E lresp \in ToggleLoginChoices :
       \E resp \in {Http(200, Obj(<<>>)),
                     Http(404, Obj([message |-> "not found"]))} :
       \E r \in {make_request(token, method, slashes \o <<first>> \o rest,
                               None, lresp, resp)} :
         /\ token' = r.token
         /\ wire' = wire \o LogAll(r.sent, lresp)
         /\ last' = [op |-> "_make_request", method |-> method,
                     endpoint |-> slashes \o <<first>> \o rest,
                     before |-> token, result |-> r]
    /\ nCalls' = nCalls + 1
    /\ UNCHANGED upstream

NextFunctions ==
    \/ LoginFirst
    \/ ConvertThresholds
    \/ MakeRequest
    \/ RunInterval
    \/ RoundTrip

SpecFunctions == Init /\ [][NextFunctions]_vars

(***************************************************************************)
(* Properties of the conversions, checked under SpecFunctions.             *)
(***************************************************************************)
Applied(name) == last.op = name

\* The tag the converter is to give a rule.
ExpectedTag(rule) ==
    IF /\ "threshold_lower_limit" \in DOMAIN rule
       /\ "threshold_upper_limit" \in DOMAIN rule
       /\ \/ rule.threshold_lower_limit < 0
          \/ rule.threshold_lower_limit = 0 /\ rule.threshold_upper_limit = 0
    THEN "CHANGE" ELSE "BASIC"

\* C30: the response-to-request threshold converter returns a list of the
\* same length and order as its input, copies each rule's priority, lower
\* limit, upper limit and message unchanged, and tags a rule CHANGE exactly
\* when both limits are present and (lower < 0 or lower = upper = 0), BASIC
\* in every other case (never PREDICTION); an empty input list yields an
\* empty list.
C30_ConverterCopiesAndTags ==
    Applied("convert_numeric_value_response_to_request") =>
        /\ Len(last.output) = Len(last.input)
        /\ \A i \in DOMAIN last.input :
              /\ Pick(last.output[i], DOMAIN last.output[i]
                                      \ {"monitor_numeric_type"})
                    = last.input[i]
              /\ last.output[i].monitor_numeric_type
                    = ExpectedTag(last.input[i])
        /\ last.input = <<>> => last.output = <<>>

\* A list of two rules was converted: limits (0, 0), tagged CHANGE, then a
\* rule with a lower limit only, tagged BASIC.
C30_Witness ==
    /\ Applied("convert_numeric_value_response_to_request")
    /\ Len(last.input) = 2
    /\ Get(last.input[1], "threshold_lower_limit", 1) = 0
    /\ Get(last.input[1], "threshold_upper_limit", 1) = 0
    /\ last.output[1].monitor_numeric_type = "CHANGE"
    /\ "threshold_upper_limit" \notin DOMAIN last.input[2]
    /\ Get(last.input[2], "threshold_lower_limit", 1) = -1
    /\ last.output[2].monitor_numeric_type = "BASIC"

\* The requests of the last call that followed its login.
ApiRequests ==
    IF last.op = "_make_request"
    THEN SelectSeq(last.result.sent, LAMBDA req : req.kind = "api")
    ELSE <<>>

\* The sub-API of a first path segment.
SubApi ==
    [repository |-> "RepositoryRestEndpoints",
     monitorsetting |-> "MonitorsettingRestEndpoints",
     monitorresult |-> "MonitorResultRestEndpoints"]

\* The endpoint without its leading slashes.
Unslashed(ep) ==
    LET k == CHOOSE k \in DOMAIN ep :
                ep[k] # "" /\ \A j \in 1..(k-1) : ep[j] = ""
    IN SubSeq(ep, k, Len(ep))

\* C23: every request goes to a URL chosen by the first path segment of
\* the logical endpoint alone, with or without a leading slash:
\* repository/... to {base}/RepositoryRestEndpoints/repository/...,
\* monitorsetting/... to {base}/MonitorsettingRestEndpoints/monitorsetting/...,
\* monitorresult/... to {base}/MonitorResultRestEndpoints/monitorresult/...,
\* and every other endpoint to {base}/<endpoint>.
C23_RoutedByFirstSegment ==
    \A i \in DOMAIN ApiRequests :
        LET path == Unslashed(last.endpoint) IN
        ApiRequests[i].url =
            IF path[1] \in DOMAIN SubApi /\ Len(path) > 1
            THEN <<base_url, SubApi[path[1]]>> \o path
            ELSE <<base_url>> \o path

C23_Witness ==
    /\ Len(ApiRequests) = 1
    /\ last.endpoint = <<"", "monitorresult", "monitor", "M1">>
    /\ ApiRequests[1].url = <<base_url, "MonitorResultRestEndpoints",
                              "monitorresult", "monitor", "M1">>

\* The legacy second counts and the names they stand for.
LegacySeconds ==
    {<<0, "NONE">>, <<30, "SEC_30">>, <<60, "MIN_01">>, <<300, "MIN_05">>,
     <<600, "MIN_10">>, <<1800, "MIN_30">>, <<3600, "MIN_60">>}

\* C22: RunInterval accepts its seven names, each as itself, and the integers
\* 0, 30, 60, 300, 600, 1800 and 3600 as NONE, SEC_30, MIN_01, MIN_05, MIN_10,
\* MIN_30 and MIN_60, so that to_seconds of the result is the integer given;
\* every other integer and every other string is rejected with an error.
C22_NamesAndLegacySecondsOnly ==
    Applied("RunIntervalEnum") =>
        LET value == last.value
            names == {p[2] : p \in LegacySeconds}
        IN
        IF "str" \in DOMAIN value /\ value.str \in names
        THEN last.result = [value |-> value.str]
        ELSE IF "int" \in DOMAIN value
                /\ \E p \in LegacySeconds : p[1] = value.int
        THEN /\ "value" \in DOMAIN last.result
             /\ <<value.int, last.result.value>> \in LegacySeconds
             /\ last.seconds = value.int
        ELSE /\ "value" \notin DOMAIN last.result
             /\ last.result.exc.type = "ValueError"

C22_Witness ==
    /\ Applied("RunIntervalEnum")
    /\ last.value = [int |-> 1800]
    /\ last.result = [value |-> "MIN_30"]
    /\ last.seconds = 1800

\* C21: for every request DTO value, serializing it with by_alias and
\* exclude_none and parsing the output back into the same type succeeds and
\* gives the same non-null field values; so for the numeric threshold rules
\* of every classification (BASIC, PREDICTION, CHANGE).
C21_RoundTripReproducesTheValue ==
    Applied("round_trip") =>
        /\ "value" \in DOMAIN last.parsed
        /\ last.parsed.value = last.value

\* The part of C21 that holds: the round trip of every value that is not a
\* BASIC rule and not a node-list request without the AND filter flag.
RoundTripOutsideTheTwoCases ==
    /\ Applied("round_trip")
    /\ ~(last.type = "MonitorNumericValueInfoRequest"
         /\ Get(last.value, "monitor_numeric_type", "") = "BASIC")
    /\ ~(last.type = "GetNodeListRequest"
         /\ "node_config_filter_is_and" \notin DOMAIN last.value)
    => /\ "value" \in DOMAIN last.parsed
       /\ last.parsed.value = last.value

\* The add-scope requests of the last call.
AddScopeRequests ==
    SelectSeq(Sent, LAMBDA req :
        /\ req.kind = "api" /\ req.method = "POST"
        /\ req.url = <<base_url, "RepositoryRestEndpoints", "repository",
                       "scope">>)

\* C28: the tool hinemos_create_scope, called through a shell with a new
\* facility id and name, with or without parent_facility_id, and answered
\* by the upstream with the created scope, sends exactly one add-scope
\* request and returns the created scope as JSON; a parent given is the
\* parent named in the request.
C28_CreateScopeSendsOneRequest ==
    /\ last.op = "hinemos_create_scope"
    /\ last.lresp.kind = "http" /\ is_success(last.lresp.status)
    /\ last.lresp.body = Obj([token |-> [tokenId |-> "tok1"]])
    /\ last.resp.kind = "http" /\ is_success(last.resp.status)
    => /\ Len(AddScopeRequests) = 1
       /\ "parent_facility_id" \in DOMAIN last.arguments
            => Get(AddScopeRequests[1].json, "parentFacilityId", "")
                 = last.arguments.parent_facility_id
       /\ "json" \in DOMAIN (IF last.shell = "http"
                              THEN last.result.returned.json.result
                              ELSE last.result.returned)

\* What the tool does instead: no shell sends anything, and each returns an
\* error text for the TypeError of create_scope.
CreateScopeToolAlwaysFails ==
    last.op = "hinemos_create_scope"
    => /\ Sent = <<>>
       /\ LET inner == IF last.shell = "http"
                       THEN last.result.returned.json.result
                       ELSE last.result.returned
          IN "text" \in DOMAIN inner /\ inner.text.e.type = "TypeError"

(***************************************************************************)
(* SpecShared: two callers on one client instance, each issuing its first  *)
(* operation.  Nothing in _make_request or login is locked, so a caller    *)
(* may be overtaken between its test of the token (client.py 164 and 119), *)
(* the arrival of the login response (126-136) and the reading of the      *)
(* token for the header (180).  `last` holds the position of each caller   *)
(* (idle, posted: login request sent, ready: past the login, done,         *)
(* raised), the login response on its way to it, the number of times a     *)
(* token was stored, and whether a caller began while the other was under  *)
(* way.                                                                    *)
(***************************************************************************)
Shared ==
    IF last.op = "shared" THEN last
    ELSE [op |-> "shared",
          pc |-> [c \in {"c1", "c2"} |-> "idle"],
          pending |-> [c \in {"c1", "c2"} |-> NetErr],
          result |-> [c \in {"c1", "c2"} |-> <<>>],
          writes |-> 0, overlap |-> FALSE]

\* _make_request "if not self._token: self.login()" and login
\* "if self._token: return", up to the sending of the login request.
CheckToken(c) ==
    /\ Shared.pc[c] = "idle"
    /\ LET busy == \E d \in {"c1", "c2"} \ {c} :
                      Shared.pc[d] \in {"posted", "ready"}
       IN IF Truthy(token)
          THEN /\ last' = [Shared EXCEPT !.pc[c] = "ready",
                                         !.overlap = @ \/ busy]
               /\ wire' = wire
          ELSE \E lresp \in LoginResponses :
                 /\ last' = [Shared EXCEPT !.pc[c] = "posted",
                                           !.pending[c] = lresp,
                                           !.overlap = @ \/ busy]
                 /\ wire' = wire \o <<Logged(LoginRequest, lresp)>>
    /\ UNCHANGED <<token, nCalls, upstream>>

\* login from the arrival of the response: raise, or
\* self._token = token_info.get('tokenId').
StoreToken(c) ==
    /\ Shared.pc[c] = "posted"
    /\ \E r \in {login_request(token, Shared.pending[c])} :
         /\ token' = r.token
         /\ last' = [Shared EXCEPT
                        !.pc[c] = IF "exc" \in DOMAIN r THEN "raised"
                                  ELSE "ready",
                        !.result[c] = IF "exc" \in DOMAIN r THEN [exc |-> r.exc]
                                      ELSE <<>>,
                        !.writes = IF "exc" \notin DOMAIN r
                                      /\ r.token \notin {None, ""}
                                   THEN @ + 1 ELSE @]
    /\ UNCHANGED <<wire, nCalls, upstream>>

\* _make_request after the login: the request, with the token held at that
\* moment in its header, and its outcome.
SendRequest(c) ==
    /\ Shared.pc[c] = "ready"
    /\ \E resp \in {Http(200, Obj(<<>>)), NetErr} :
         /\ wire' = wire \o
               <<Logged([kind |-> "api", method |-> "GET",
                         url |-> route(<<"", "repository", "node">>),
                         json |-> <<>>,
                         headers |-> request_headers(token)], NetErr)>>
         /\ last' = [Shared EXCEPT !.pc[c] = "done",
                                   !.result[c] = send(resp)]
    /\ UNCHANGED <<token, nCalls, upstream>>

NextShared ==
    \E c \in {"c1", "c2"} : CheckToken(c) \/ StoreToken(c) \/ SendRequest(c)

SpecShared == Init /\ [][NextShared]_vars

\* The login requests on the wire.
LoginPositions == {i \in DOMAIN wire : wire[i].kind = "login"}

\* C27: (a) when the two operations are issued one after the other, a token
\* is stored at most once, by the first login that obtains one, and no
\* login request follows it: the second operation only reads the token;
\* (b) a caller sends a login request only when it found no token, so at
\* most one login request per caller is sent and a token is stored at most
\* twice.  The witness is the race: both callers, having started
\* concurrently on a client without a token, send a login request and the
\* token is stored twice.
C27_TokenStoredOnceWhenSequential ==
    /\ ~Shared.overlap =>
          /\ Shared.writes <= 1
          /\ \A i \in LoginPositions : \A j \in LoginPositions :
                i < j => wire[i].answer # "token"
    /\ Cardinality(LoginPositions) <= 2
    /\ Shared.writes <= Cardinality(LoginPositions)

C27_Witness ==
    /\ Shared.overlap
    /\ Shared.writes = 2
    /\ Cardinality(LoginPositions) = 2
    /\ Shared.pc = [c \in {"c1", "c2"} |-> "done"]

====
